---- MODULE Spec2Model ----
(***************************************************************************)
(* Model of the motion-event detection, phase segmentation, evaluation and *)
(* synchronisation core of baseball-video-analyzer.                        *)
(*                                                                         *)
(* Units.  Speeds are integers in units of 0.0025 (Scale units = 1.0),     *)
(* so 0.001 lies strictly between 0 and 1 unit, 0.6 = 240 and 1.0 = 400.   *)
(* Normalised coordinates use the same unit.  Comparisons against the      *)
(* adaptive thresholds are made exactly, on integers (see AboveP70 and     *)
(* AboveMeanStd), so no threshold is rounded.                              *)
(***************************************************************************)
EXTENDS Integers, Sequences, FiniteSets, TLC

VARIABLES
    pc,            \* position in the pipeline being run
    fps,           \* frames per second of the video (0 = unknown)
    history,       \* landmarks_history: the pose of each frame
    speeds,        \* wrist_speeds / arm_speeds: <<frame, speed>> pairs
    min_frames,    \* min_swing_frames / min_frames used by the detector call
    speed_threshold, \* speed_threshold used by detect_pitch_motion
    swings,        \* result of detect_swings
    pitches,       \* result of detect_pitch_motion
    interval,      \* the interval handed to the segmenter / evaluator
    phases,        \* result of detect_batting_phases / detect_pitching_phases
    obs,           \* weight_data (batting) / the sub-checks' risk levels (pitching)
    details,       \* evaluation details: <<name, score, max>> per criterion
    evaluation,    \* the evaluator's result record
    sync,          \* align_frames arguments: total_a, total_b, sync_a, sync_b
    mapping        \* result of align_frames

vars == <<pc, fps, history, speeds, min_frames, speed_threshold, swings,
          pitches, interval, phases, obs, details, evaluation, sync, mapping>>

Min(a, b) == IF a < b THEN a ELSE b
Max(a, b) == IF a > b THEN a ELSE b
Abs(a) == IF a < 0 THEN -a ELSE a

\* None, and a value that is not None
Undefined == [defined |-> FALSE]
Some(v) == [defined |-> TRUE, value |-> v]

RECURSIVE SumSeq(_)
SumSeq(s) == IF s = <<>> THEN 0 ELSE Head(s) + SumSeq(Tail(s))

RECURSIVE SumSq(_)
SumSq(s) == IF s = <<>> THEN 0 ELSE Head(s) * Head(s) + SumSq(Tail(s))

\* Insert x into the ascending sequence s.
RECURSIVE Insert(_, _)
Insert(x, s) ==
    IF s = <<>> THEN <<x>>
    ELSE IF x <= Head(s) THEN <<x>> \o s
    ELSE <<Head(s)>> \o Insert(x, Tail(s))

RECURSIVE Sorted(_)
Sorted(s) == IF s = <<>> THEN <<>> ELSE Insert(Head(s), Sorted(Tail(s)))

(***************************************************************************)
(* Bounds of the model.                                                    *)
(***************************************************************************)
MaxFrame == 5          \* detector series use frame indices 0..MaxFrame
NBat == 9              \* frames of a batting clip (frame indices 0..NBat-1)
NPit == 11             \* frames of a pitching clip
MaxMoves == 4          \* frames in which the throwing wrist moves

(***************************************************************************)
(* Program constants.                                                      *)
(***************************************************************************)
Scale == 400                   \* model units per 1.0 (speed, coordinate)
DefaultMinSwingFrames == 3     \* detect_swings(min_swing_frames=3)
DefaultMinFrames == 4          \* detect_pitch_motion(min_frames=4)
DefaultSpeedThreshold == 240   \* detect_pitch_motion(speed_threshold=0.6)

(***************************************************************************)
(* swing_detector.detect_swings                                            *)
(***************************************************************************)
SpeedsOf(ws) == [i \in 1..Len(ws) |-> ws[i][2]]

\* nonzero_speeds = [s for _, s in wrist_speeds if s > 0.001]
IsNonzero(s) == s >= 1
NonzeroSpeeds(ws) == SelectSeq(SpeedsOf(ws), IsNonzero)

\* speed > np.percentile(nonzero_speeds, 70), linear interpolation between the
\* order statistics around position 0.7 * (n - 1); both sides are scaled by 10.
Percentile70x10(nz) ==
    LET a == Sorted(nz)
        n == Len(a)
        pos == 7 * (n - 1)
        lo == (pos \div 10) + 1
        hi == Min(lo + 1, n)
    IN 10 * a[lo] + (pos % 10) * (a[hi] - a[lo])

AboveP70(speed, nz) == 10 * speed > Percentile70x10(nz)

SwingScanInit ==
    [in_swing |-> FALSE, swings |-> <<>>, current_start |-> 0,
     current_peak |-> 0, current_peak_speed |-> 0]

\* The else-branch of the loop body: leaving the swing closes the candidate.
SwingCloseNoMin(st, frame, minf) ==
    [st EXCEPT !.swings = Append(@, <<st.current_start, frame,
                                       st.current_peak, st.current_peak_speed>>),
               !.in_swing = FALSE]

SwingClose(st, frame, minf) ==
    [st EXCEPT !.swings =
                  IF frame - st.current_start >= minf
                  THEN Append(@, <<st.current_start, frame,
                                   st.current_peak, st.current_peak_speed>>)
                  ELSE @,
               !.in_swing = FALSE]

\* Entering a swing keeps the peak of the run before it unless the sample
\* is faster.
SwingStepKeepPeak(st, frame, speed, above, minf) ==
    IF above
    THEN IF speed > st.current_peak_speed
         THEN [st EXCEPT !.current_start = IF st.in_swing THEN @ ELSE frame,
                         !.current_peak = frame, !.current_peak_speed = speed,
                         !.in_swing = TRUE]
         ELSE [st EXCEPT !.current_start = IF st.in_swing THEN @ ELSE frame,
                         !.in_swing = TRUE]
    ELSE IF st.in_swing THEN SwingClose(st, frame, minf) ELSE st

\* One iteration of "for frame, speed in wrist_speeds".
SwingStep(st, frame, speed, above, minf) ==
    IF above
    THEN IF ~st.in_swing
         THEN [st EXCEPT !.current_start = frame, !.current_peak = frame,
                         !.current_peak_speed = speed, !.in_swing = TRUE]
         ELSE IF speed > st.current_peak_speed
              THEN [st EXCEPT !.current_peak = frame, !.current_peak_speed = speed]
              ELSE st
    ELSE IF st.in_swing THEN SwingClose(st, frame, minf) ELSE st

RECURSIVE SwingScan(_, _, _, _, _)
SwingScan(st, ws, i, nz, minf) ==
    IF i > Len(ws) THEN st
    ELSE SwingScan(SwingStep(st, ws[i][1], ws[i][2], AboveP70(ws[i][2], nz), minf),
                   ws, i + 1, nz, minf)

\* "最後のスイング": a swing still open when the series ends.
SwingFinish(st, ws, minf) ==
    IF st.in_swing /\ ws[Len(ws)][1] - st.current_start >= minf
    THEN Append(st.swings, <<st.current_start, ws[Len(ws)][1],
                             st.current_peak, st.current_peak_speed>>)
    ELSE st.swings

detect_swings(ws, minf) ==
    IF ws = <<>> THEN <<>>
    ELSE LET nz == NonzeroSpeeds(ws)
         IN IF nz = <<>> THEN <<>>
            ELSE SwingFinish(SwingScan(SwingScanInit, ws, 1, nz, minf), ws, minf)

(***************************************************************************)
(* pitching_detector.detect_pitch_motion                                   *)
(***************************************************************************)
\* speed > mean + 1.2 * std over all samples (population std), exactly:
\* n*speed - S > 1.2 * sqrt(n*Q - S*S), S the sum and Q the sum of squares.
AboveMeanStd(speed, all) ==
    LET n == Len(all)
        a == n * speed - SumSeq(all)
        d == n * SumSq(all) - SumSeq(all) * SumSeq(all)
    IN a > 0 /\ 25 * a * a > 36 * d

\* adaptive = mean_speed + 1.2 * std_speed: no floor
AboveAdaptiveNoFloor(speed, all, thr) == AboveMeanStd(speed, all)

\* speed > adaptive, adaptive = max(speed_threshold, mean_speed + 1.2 * std_speed)
AboveAdaptive(speed, all, thr) == speed > thr /\ AboveMeanStd(speed, all)

PitchScanInit ==
    [in_pitch |-> FALSE, pitches |-> <<>>, current_start |-> 0,
     peak_frame |-> 0, peak_speed |-> 0]

\* The candidate is emitted but the run stays open.
PitchCloseStayOpen(st, frame, minf) ==
    [st EXCEPT !.pitches =
                  IF frame - st.current_start >= minf
                  THEN Append(@, <<st.current_start, frame,
                                   st.peak_frame, st.peak_speed>>)
                  ELSE @]

PitchClose(st, frame, minf) ==
    [st EXCEPT !.pitches =
                  IF frame - st.current_start >= minf
                  THEN Append(@, <<st.current_start, frame,
                                   st.peak_frame, st.peak_speed>>)
                  ELSE @,
               !.in_pitch = FALSE]

\* One iteration of "for frame, speed in arm_speeds".
PitchStep(st, frame, speed, above, minf) ==
    IF above
    THEN IF ~st.in_pitch
         THEN [st EXCEPT !.current_start = frame, !.peak_frame = frame,
                         !.peak_speed = speed, !.in_pitch = TRUE]
         ELSE IF speed > st.peak_speed
              THEN [st EXCEPT !.peak_frame = frame, !.peak_speed = speed]
              ELSE st
    ELSE IF st.in_pitch THEN PitchClose(st, frame, minf) ELSE st

RECURSIVE PitchScan(_, _, _, _, _, _)
PitchScan(st, as, i, all, thr, minf) ==
    IF i > Len(as) THEN st
    ELSE PitchScan(PitchStep(st, as[i][1], as[i][2],
                             AboveAdaptive(as[i][2], all, thr), minf),
                   as, i + 1, all, thr, minf)

PitchFinish(st, as, minf) ==
    IF st.in_pitch /\ as[Len(as)][1] - st.current_start >= minf
    THEN Append(st.pitches, <<st.current_start, as[Len(as)][1],
                              st.peak_frame, st.peak_speed>>)
    ELSE st.pitches

detect_pitch_motion(as, thr, minf) ==
    IF as = <<>> THEN <<>>
    ELSE PitchFinish(PitchScan(PitchScanInit, as, 1, SpeedsOf(as), thr, minf),
                     as, minf)

(***************************************************************************)
(* Detector specification: a speed series with strictly increasing frame   *)
(* indices is handed to detect_swings or to detect_pitch_motion.           *)
(***************************************************************************)
\* Speeds a sample can take: 0.0, 0.1, 0.65, 1.0.
DetectSpeedVals == {0, 40, 260, 400}

\* The series holding the samples of f, in increasing frame order; a negative
\* f[i] means the series has no sample for frame i.
RECURSIVE SeriesFrom(_, _)
SeriesFrom(f, i) ==
    IF i > MaxFrame THEN <<>>
    ELSE IF f[i] < 0 THEN SeriesFrom(f, i + 1)
    ELSE <<(<<i, f[i]>>)>> \o SeriesFrom(f, i + 1)

\* The series of the specification's concrete scenario (0.0 0.1 0.9 1.0 0.95 0.1 0.0).
ScenarioSeries ==
    << <<0, 0>>, <<1, 40>>, <<2, 360>>, <<3, 400>>, <<4, 380>>, <<5, 40>>, <<6, 0>> >>

\* Two fast samples, each followed by a gap and a slow sample.
GappedSeries ==
    << <<0, 400>>, <<2, 40>>, <<3, 40>>, <<4, 400>>, <<6, 40>> >>

DetectSeries ==
    {SeriesFrom(f, 0) : f \in [0..MaxFrame -> DetectSpeedVals \cup {-1}]}
        \cup {ScenarioSeries, GappedSeries}

SwingMinSet == {2, DefaultMinSwingFrames}
\* <<speed_threshold, min_frames>> of a detect_pitch_motion call: the defaults,
\* and the scenario's threshold 0.5 with minimum duration 2.
PitchParamSet == {<<DefaultSpeedThreshold, DefaultMinFrames>>, <<200, 2>>}

Idle ==
    /\ fps = 0 /\ history = <<>> /\ interval = <<>> /\ phases = <<>>
    /\ obs = <<>> /\ details = <<>> /\ evaluation = <<>>
    /\ sync = <<>> /\ mapping = <<>>

NotCalled == [swing |-> 0, pitch |-> 0]

InitDetect ==
    /\ pc = "series"
    /\ speeds \in DetectSeries
    /\ min_frames = NotCalled /\ speed_threshold = 0
    /\ swings = <<>> /\ pitches = <<>>
    /\ Idle

\* swings = detect_swings(wrist_speeds, fps, min_swing_frames)
DetectSwings ==
    /\ pc = "series"
    /\ min_frames.swing = 0
    /\ \E m \in SwingMinSet :
          /\ min_frames' = [min_frames EXCEPT !.swing = m]
          /\ swings' = detect_swings(speeds, m)
    /\ UNCHANGED <<pc, fps, history, speeds, speed_threshold, pitches, interval,
                   phases, obs, details, evaluation, sync, mapping>>

\* pitches = detect_pitch_motion(arm_speeds, fps, speed_threshold, min_frames)
DetectPitchMotion ==
    /\ pc = "series"
    /\ min_frames.pitch = 0
    /\ \E p \in PitchParamSet :
          /\ min_frames' = [min_frames EXCEPT !.pitch = p[2]]
          /\ speed_threshold' = p[1]
          /\ pitches' = detect_pitch_motion(speeds, p[1], p[2])
    /\ UNCHANGED <<pc, fps, history, speeds, swings, interval,
                   phases, obs, details, evaluation, sync, mapping>>

NextDetect == DetectSwings \/ DetectPitchMotion

SpecDetect == InitDetect /\ [][NextDetect]_vars

(***************************************************************************)
(* Landmark histories.  A history is the sequence of the poses of frames   *)
(* 0..n-1 (app.py stores one entry per frame, None where detection         *)
(* failed).  A pose maps a joint index to <<x, y, visibility>>, x and y in *)
(* units of 0.0025 and visibility in hundredths.                           *)
(***************************************************************************)
\* right wrist 16, right hip 24, left (lead) knee 25, ankles 27 and 28
Joints == {16, 24, 25, 27, 28}
NoPose == [present |-> FALSE, j |-> [k \in Joints |-> <<0, 0, 0>>]]

\* landmarks_history.get(f)
LM(h, f) == IF f >= 0 /\ f < Len(h) THEN h[f + 1] ELSE NoPose

\* lm[k][3] > 0.5
Visible(lm, k) == lm.j[k][3] > 50

\* np.sqrt(dx**2 + dy**2), exact on the displacements the model generates.
Hypot(dx, dy) == CHOOSE r \in 0..(Abs(dx) + Abs(dy)) : r * r = dx * dx + dy * dy

(***************************************************************************)
(* swing_detector.calc_wrist_speed (frames = 0..n-1, so curr_f - prev_f = 1)*)
(***************************************************************************)
\* The speed appended for frame f (f >= 1).
WristSpeedAt(h, f, fpsv, wrist_idx, visibility_threshold) ==
    LET prev_lm == LM(h, f - 1)
        curr_lm == LM(h, f)
    IN IF ~prev_lm.present \/ ~curr_lm.present THEN 0
       ELSE IF prev_lm.j[wrist_idx][3] < visibility_threshold
                 \/ curr_lm.j[wrist_idx][3] < visibility_threshold THEN 0
       ELSE LET d == Hypot(curr_lm.j[wrist_idx][1] - prev_lm.j[wrist_idx][1],
                           curr_lm.j[wrist_idx][2] - prev_lm.j[wrist_idx][2])
            IN IF fpsv > 0 THEN d * fpsv ELSE d

calc_wrist_speed(h, fpsv, wrist_idx, visibility_threshold) ==
    [i \in 1..(Len(h) - 1) |->
        <<i, WristSpeedAt(h, i, fpsv, wrist_idx, visibility_threshold)>>]

(***************************************************************************)
(* phase_detector.detect_batting_phases                                    *)
(***************************************************************************)
\* int(fps * num / den) for the non-negative integer frame rates of the model.
IntMul(fpsv, num, den) == (fpsv * num) \div den

BatPreMargin(fpsv) == IF fpsv > 0 THEN IntMul(fpsv, 5, 10) ELSE 15
BatPostMargin(fpsv) == IF fpsv > 0 THEN IntMul(fpsv, 3, 10) ELSE 10
BatStrideBack(fpsv) == IF fpsv > 0 THEN IntMul(fpsv, 15, 100) ELSE 5

\* speed_map.get(f, 0)
SpeedMapGet(ws, f) ==
    IF \E i \in 1..Len(ws) : ws[i][1] = f
    THEN ws[CHOOSE i \in 1..Len(ws) : ws[i][1] = f][2]
    ELSE 0

\* The wrist (16) is visible in f and f + 1 and moved by more than 0.005 in x.
WristMoved(h, f) ==
    LET lm == LM(h, f)
        next_lm == LM(h, f + 1)
    IN /\ lm.present /\ next_lm.present
       /\ Visible(lm, 16) /\ Visible(next_lm, 16)
       /\ Abs(next_lm.j[16][1] - lm.j[16][1]) > 2

\* An ankle (27 or 28), visible in f and f + 1, rose by more than 0.01.
AnkleLifted(h, f) ==
    LET lm == LM(h, f)
        next_lm == LM(h, f + 1)
    IN /\ lm.present /\ next_lm.present
       /\ \E ankle_idx \in {27, 28} :
             /\ Visible(lm, ankle_idx) /\ Visible(next_lm, ankle_idx)
             /\ next_lm.j[ankle_idx][2] - lm.j[ankle_idx][2] < -4

\* A loop that assigns at its first hit and breaks: the first of the frames
\* hits, else the value dflt assigned before the loop.
FirstIn(hits, dflt) ==
    IF hits = {} THEN dflt ELSE CHOOSE f \in hits : \A g \in hits : f <= g

\* A loop that assigns on every hit and never leaves: the last of the frames
\* hits, else the value dflt assigned before the loop.
LastIn(hits, dflt) ==
    IF hits = {} THEN dflt ELSE CHOOSE f \in hits : \A g \in hits : f >= g

\* The boundaries computed before the phase list is built.
BattingBoundaries(h, ws, swing, fpsv) ==
    LET start == swing[1]
        end == swing[2]
        peak == swing[3]
        peak_speed == swing[4]
        analysis_start == Max(0, start - BatPreMargin(fpsv))
        analysis_end == end + BatPostMargin(fpsv)
        load_end == start
        load_start == FirstIn({f \in analysis_start..(start - 1) : WristMoved(h, f)},
                              analysis_start)
        stride_start == LastIn({f \in load_end..(start - 1) : AnkleLifted(h, f)},
                               Max(analysis_start, start - BatStrideBack(fpsv)))
        swing_start == FirstIn({f \in stride_start..(peak - 1) :
                                   10 * SpeedMapGet(ws, f) > 3 * peak_speed},
                               start)
    IN [analysis_start |-> analysis_start, analysis_end |-> analysis_end,
        load_start |-> load_start, stride_start |-> stride_start,
        swing_start |-> swing_start, impact_frame |-> peak,
        follow_start |-> peak + 1]

Opt(cond, phase) == IF cond THEN <<phase>> ELSE <<>>

BattingPhaseList(b) ==
       Opt(b.load_start > b.analysis_start,
           <<"stance", b.analysis_start, b.load_start - 1>>)
    \o Opt(b.stride_start > b.load_start,
           <<"load", b.load_start, b.stride_start - 1>>)
    \o Opt(b.swing_start > b.stride_start,
           <<"stride", b.stride_start, b.swing_start - 1>>)
    \o << <<"swing", b.swing_start, b.impact_frame>> >>
    \o Opt(b.analysis_end > b.follow_start,
           <<"follow_through", b.follow_start, b.analysis_end>>)

detect_batting_phases(h, ws, swing, fpsv) ==
    BattingPhaseList(BattingBoundaries(h, ws, swing, fpsv))

(***************************************************************************)
(* Batting pipeline (app.py): history -> calc_wrist_speed -> detect_swings *)
(* -> detect_batting_phases.  The wrist (16) starts at x = 0 and moves by  *)
(* one of BatSteps between consecutive frames; the feet stay on the ground.*)
(***************************************************************************)
BatSteps == {1, 3, 8}
BatFpsSet == {0, 3, 20}

RECURSIVE WristTrack(_, _)
WristTrack(steps, n) ==
    IF n = 0 THEN 0 ELSE WristTrack(steps, n - 1) + steps[n]

BatPose(x) ==
    [present |-> TRUE,
     j |-> [k \in Joints |-> IF k = 16 THEN <<x, 200, 90>>
                             ELSE IF k = 24 THEN <<200, 220, 90>>
                             ELSE IF k = 25 THEN <<160, 300, 90>>
                             ELSE IF k = 27 THEN <<160, 360, 90>>
                             ELSE <<240, 360, 90>>]]

BatHistory(steps) == [i \in 1..NBat |-> BatPose(WristTrack(steps, i - 1))]

InitBatting ==
    /\ pc = "bat_history"
    /\ fps \in BatFpsSet
    /\ \E steps \in [1..(NBat - 1) -> BatSteps] : history = BatHistory(steps)
    /\ speeds = <<>> /\ min_frames = NotCalled /\ speed_threshold = 0
    /\ swings = <<>> /\ pitches = <<>>
    /\ interval = <<>> /\ phases = <<>>
    /\ obs = <<>> /\ details = <<>> /\ evaluation = <<>>
    /\ sync = <<>> /\ mapping = <<>>

\* wrist_speeds = calc_wrist_speed(all_landmarks, reader.fps, wrist_idx=16)
\* swings = detect_swings(wrist_speeds, reader.fps)
BatDetect ==
    /\ pc = "bat_history"
    /\ LET ws == calc_wrist_speed(history, fps, 16, 30)
       IN /\ speeds' = ws
          /\ swings' = detect_swings(ws, DefaultMinSwingFrames)
    /\ min_frames' = [min_frames EXCEPT !.swing = DefaultMinSwingFrames]
    /\ pc' = "bat_swings"
    /\ UNCHANGED <<fps, history, speed_threshold, pitches, interval, phases,
                   obs, details, evaluation, sync, mapping>>

\* The last interval of maximal peak speed.
BestOfLatest(ivs) ==
    ivs[CHOOSE i \in 1..Len(ivs) :
            /\ \A k \in 1..Len(ivs) : ivs[k][4] <= ivs[i][4]
            /\ \A k \in (i + 1)..Len(ivs) : ivs[k][4] < ivs[i][4]]

\* max(ivs, key=lambda s: s[3]): the first interval of maximal peak speed.
BestOf(ivs) ==
    ivs[CHOOSE i \in 1..Len(ivs) :
            /\ \A k \in 1..Len(ivs) : ivs[k][4] <= ivs[i][4]
            /\ \A k \in 1..(i - 1) : ivs[k][4] < ivs[i][4]]

\* if swings: best_swing = max(swings, key=lambda s: s[3])
\* phases = detect_batting_phases(all_landmarks, wrist_speeds, best_swing, fps)
BatSegment ==
    /\ pc = "bat_swings"
    /\ swings # <<>>
    /\ interval' = BestOf(swings)
    /\ phases' = detect_batting_phases(history, speeds, BestOf(swings), fps)
    /\ pc' = "bat_phases"
    /\ UNCHANGED <<fps, history, speeds, min_frames, speed_threshold, swings,
                   pitches, obs, details, evaluation, sync, mapping>>

(***************************************************************************)
(* Stride specification: the batting pipeline on histories in which the    *)
(* front foot (ankle 27) may leave the ground: from frame lift + 1 on the  *)
(* ankle is 0.05 higher (y smaller) than before.                           *)
(***************************************************************************)
BatPoseLifted(x, lifted) ==
    [BatPose(x) EXCEPT !.j[27] = IF lifted THEN <<160, 340, 90>> ELSE @]

StrideHistory(steps, lift) ==
    [i \in 1..NBat |-> BatPoseLifted(WristTrack(steps, i - 1),
                                     lift >= 0 /\ i - 1 > lift)]

InitStride ==
    /\ pc = "bat_history"
    /\ fps \in BatFpsSet
    /\ \E steps \in [1..(NBat - 1) -> {1, 8}] :
       \E lift \in (-1)..(NBat - 2) :
          history = StrideHistory(steps, lift)
    /\ speeds = <<>> /\ min_frames = NotCalled /\ speed_threshold = 0
    /\ swings = <<>> /\ pitches = <<>>
    /\ interval = <<>> /\ phases = <<>>
    /\ obs = <<>> /\ details = <<>> /\ evaluation = <<>>
    /\ sync = <<>> /\ mapping = <<>>

NextStride == BatDetect \/ BatSegment

SpecStride == InitStride /\ [][NextStride]_vars

(***************************************************************************)
(* pitching_detector.calc_throwing_arm_speed (arm = "right": wrist 16)      *)
(***************************************************************************)
calc_throwing_arm_speed(h, fpsv) == calc_wrist_speed(h, fpsv, 16, 50)

(***************************************************************************)
(* pitching_detector.detect_pitching_phases (arm = "right": hip 24, lead   *)
(* knee 25, lead ankle 27, wrist 16)                                       *)
(***************************************************************************)
PitPreMargin(fpsv) == IF fpsv > 0 THEN IntMul(fpsv, 8, 10) ELSE 24
PitPostMargin(fpsv) == IF fpsv > 0 THEN IntMul(fpsv, 4, 10) ELSE 12

\* lift = hip[1] - lead_knee[1] where both are visible, else no candidate (0).
LiftAt(h, f) ==
    LET lm == LM(h, f)
    IN IF lm.present /\ Visible(lm, 25) /\ Visible(lm, 24)
       THEN lm.j[24][2] - lm.j[25][2] ELSE 0

\* The frame of range(analysis_start, start) where lift first exceeds every
\* earlier maximum (max_lift starts at 0), else analysis_start.
LegLiftPeak(h, analysis_start, start) ==
    LET cand == {f \in analysis_start..(start - 1) : LiftAt(h, f) > 0}
    IN IF cand = {} THEN analysis_start
       ELSE CHOOSE f \in cand :
               /\ \A g \in cand : LiftAt(h, g) <= LiftAt(h, f)
               /\ \A g \in cand : g < f => LiftAt(h, g) < LiftAt(h, f)

\* The lead knee, visible in f and f + 1, rose by more than 0.005.
KneeRose(h, f) ==
    LET lm == LM(h, f)
        next_lm == LM(h, f + 1)
    IN /\ lm.present /\ next_lm.present
       /\ Visible(lm, 25) /\ Visible(next_lm, 25)
       /\ next_lm.j[25][2] - lm.j[25][2] < -2

\* The lead ankle is visible and near the ground (ankle_y > 0.75).
AnkleLanded(h, f) ==
    LET lm == LM(h, f)
    IN lm.present /\ Visible(lm, 27) /\ lm.j[27][2] > 300

\* Wrist height where the wrist is visible and below min_wrist_y = 1.0.
WristHigh(h, f) ==
    LET lm == LM(h, f)
    IN lm.present /\ Visible(lm, 16) /\ lm.j[16][2] < Scale

\* The first frame of range(cocking_start, release) of minimal wrist y.
MaxHeightFrame(h, cocking_start, release) ==
    LET cand == {f \in cocking_start..(release - 1) : WristHigh(h, f)}
    IN IF cand = {} THEN cocking_start
       ELSE CHOOSE f \in cand :
               /\ \A g \in cand : LM(h, f).j[16][2] <= LM(h, g).j[16][2]
               /\ \A g \in cand : g < f => LM(h, f).j[16][2] < LM(h, g).j[16][2]

PitchingBoundaries(h, pitch, fpsv) ==
    LET start == pitch[1]
        end == pitch[2]
        release == pitch[3]
        analysis_start == Max(0, start - PitPreMargin(fpsv))
        analysis_end == end + PitPostMargin(fpsv)
        leg_lift_peak == LegLiftPeak(h, analysis_start, start)
        leg_lift_start == FirstIn({f \in analysis_start..(leg_lift_peak - 1) :
                                      KneeRose(h, f)},
                                  analysis_start)
        stride_start == leg_lift_peak + 1
        stride_end == FirstIn({f \in (leg_lift_peak + 1)..(start - 1) :
                                  AnkleLanded(h, f)},
                              start)
        cocking_start == stride_end + 1
        cocking_end == MaxHeightFrame(h, cocking_start, release)
    IN [analysis_start |-> analysis_start, analysis_end |-> analysis_end,
        leg_lift_start |-> leg_lift_start, stride_start |-> stride_start,
        cocking_start |-> cocking_start, accel_start |-> cocking_end + 1,
        accel_end |-> release, follow_start |-> release + 1]

PitchingPhaseList(b) ==
       Opt(b.leg_lift_start > b.analysis_start,
           <<"windup", b.analysis_start, b.leg_lift_start - 1>>)
    \o Opt(b.stride_start > b.leg_lift_start,
           <<"leg_lift", b.leg_lift_start, b.stride_start - 1>>)
    \o Opt(b.cocking_start > b.stride_start,
           <<"stride", b.stride_start, b.cocking_start - 1>>)
    \o Opt(b.accel_start > b.cocking_start,
           <<"arm_cocking", b.cocking_start, b.accel_start - 1>>)
    \o Opt(b.accel_end >= b.accel_start,
           <<"acceleration", b.accel_start, b.accel_end>>)
    \o Opt(b.analysis_end > b.follow_start,
           <<"follow_through", b.follow_start, b.analysis_end>>)

detect_pitching_phases(h, pitch, fpsv) ==
    PitchingPhaseList(PitchingBoundaries(h, pitch, fpsv))

(***************************************************************************)
(* Pitching pipeline (app.py): history -> calc_throwing_arm_speed ->       *)
(* detect_pitch_motion -> detect_pitching_phases.  The throwing wrist      *)
(* rests, moves during up to MaxMoves consecutive frames and rests again;  *)
(* the lead leg rests on the ground, may rise (knee above the hip) and may *)
(* land again.                                                             *)
(***************************************************************************)
PitFpsSet == {2, 5}

\* A move of the wrist between two frames: "x" 0.3125 along x, "y" 0.3025
\* along y (upwards while there is room in the image).
MoveKinds == {"x", "y"}

MoveWrist(pos, kind) ==
    IF kind = "x"
    THEN <<IF pos[1] + 125 <= Scale THEN pos[1] + 125 ELSE pos[1] - 125, pos[2]>>
    ELSE IF kind = "y"
    THEN <<pos[1], IF pos[2] - 121 >= 0 THEN pos[2] - 121 ELSE pos[2] + 121>>
    ELSE pos

\* The kinds of the NPit - 1 steps: still except for the moves from step first on.
WristSteps ==
    {[i \in 1..(NPit - 1) |->
         IF i >= first /\ i < first + Len(moves) THEN moves[i - first + 1] ELSE "still"] :
       first \in 1..(NPit - 1),
       moves \in UNION {[1..len -> MoveKinds] : len \in 0..MaxMoves}}

RECURSIVE WristAt(_, _)
WristAt(steps, f) ==
    IF f = 0 THEN <<100, 390>>
    ELSE IF f > Len(steps) THEN WristAt(steps, Len(steps))
    ELSE MoveWrist(WristAt(steps, f - 1), steps[f])

\* The lead leg rises in frame rise, is highest from frame peak on and is back
\* on the ground from frame land on (a frame >= NPit never comes).
LegProfiles ==
    {[rise |-> r, peak |-> r + d1, land |-> r + d1 + d2] :
        r \in 0..NPit, d1 \in {0, 2}, d2 \in {1, 3, NPit}}

PitPose(wrist, leg, f) ==
    LET up == f >= leg.rise /\ f < leg.land
    IN [present |-> TRUE,
        j |-> [k \in Joints |->
                 IF k = 16 THEN <<wrist[1], wrist[2], 90>>
                 ELSE IF k = 24 THEN <<200, 220, 90>>
                 ELSE IF k = 25 THEN <<160, IF ~up THEN 300
                                            ELSE IF f < leg.peak THEN 210 ELSE 200, 90>>
                 ELSE IF k = 27 THEN <<160, IF up THEN 280 ELSE 360, 90>>
                 ELSE <<240, 360, 90>>]]

PitHistory(steps, leg) ==
    [i \in 1..NPit |-> PitPose(WristAt(steps, i - 1), leg, i - 1)]

InitPitching ==
    /\ pc = "pit_history"
    /\ fps \in PitFpsSet
    /\ \E steps \in WristSteps, leg \in LegProfiles :
          history = PitHistory(steps, leg)
    /\ speeds = <<>> /\ min_frames = NotCalled /\ speed_threshold = 0
    /\ swings = <<>> /\ pitches = <<>>
    /\ interval = <<>> /\ phases = <<>>
    /\ obs = <<>> /\ details = <<>> /\ evaluation = <<>>
    /\ sync = <<>> /\ mapping = <<>>

\* arm_speeds = calc_throwing_arm_speed(all_landmarks, reader.fps, arm=arm)
\* pitches = detect_pitch_motion(arm_speeds, reader.fps)
PitDetect ==
    /\ pc = "pit_history"
    /\ LET as == calc_throwing_arm_speed(history, fps)
       IN /\ speeds' = as
          /\ pitches' = detect_pitch_motion(as, DefaultSpeedThreshold, DefaultMinFrames)
    /\ min_frames' = [min_frames EXCEPT !.pitch = DefaultMinFrames]
    /\ speed_threshold' = DefaultSpeedThreshold
    /\ pc' = "pit_pitches"
    /\ UNCHANGED <<fps, history, swings, interval, phases,
                   obs, details, evaluation, sync, mapping>>

\* if pitches: best_pitch = max(pitches, key=lambda p: p[3])
\* pitching_phases = detect_pitching_phases(all_landmarks, arm_speeds, best_pitch, fps)
PitSegment ==
    /\ pc = "pit_pitches"
    /\ pitches # <<>>
    /\ interval' = BestOf(pitches)
    /\ phases' = detect_pitching_phases(history, BestOf(pitches), fps)
    /\ pc' = "pit_phases"
    /\ UNCHANGED <<fps, history, speeds, min_frames, speed_threshold, swings,
                   pitches, obs, details, evaluation, sync, mapping>>

InitSegment == InitBatting \/ InitPitching

NextSegment == BatDetect \/ BatSegment \/ PitDetect \/ PitSegment

SpecSegment == InitSegment /\ [][NextSegment]_vars

(***************************************************************************)
(* Poses read by the evaluators.  A pose gives, per joint, x, y (units of  *)
(* 0.0025) and visibility (hundredths), and the value calc_angle returns   *)
(* for the joint triples the evaluators pass to it, rounded to whole       *)
(* degrees (each lies at least 2 degrees from every threshold it is        *)
(* compared with).                                                         *)
(* A history maps a frame to the name of its pose: "none" (landmarks is    *)
(* None), "hidden" (a pose none of whose joints is visible), "L" (only the *)
(* left side and the nose visible) or a fully visible pose A, B or C.      *)
(***************************************************************************)
EvalJoints == {0, 11, 12, 13, 14, 15, 16, 23, 24, 25, 26, 27, 28}
RightSide == {12, 14, 16, 24, 26, 28}

\* The batting poses A (sound), B (near the ideal ranges) and C (far from them).
BatShapeA ==
    [x |-> (0 :> 200 @@ 11 :> 220 @@ 12 :> 180 @@ 13 :> 250 @@ 14 :> 150 @@ 15 :> 244 @@
            16 :> 128 @@ 23 :> 212 @@ 24 :> 188 @@ 25 :> 242 @@ 26 :> 158 @@ 27 :> 226 @@
            28 :> 174),
     y |-> (0 :> 60 @@ 11 :> 100 @@ 12 :> 100 @@ 13 :> 150 @@ 14 :> 150 @@ 15 :> 235 @@
            16 :> 240 @@ 23 :> 220 @@ 24 :> 220 @@ 25 :> 290 @@ 26 :> 290 @@ 27 :> 360 @@
            28 :> 360),
     angle |-> (<<24, 26, 28>> :> 144 @@ <<23, 25, 27>> :> 144 @@ <<12, 14, 16>> :> 163 @@
                <<11, 13, 15>> :> 145 @@ <<14, 12, 24>> :> 35 @@
                <<13, 11, 23>> :> 35 @@ <<12, 24, 26>> :> 153)]

BatShapeB ==
    [x |-> (0 :> 224 @@ 11 :> 220 @@ 12 :> 180 @@ 13 :> 250 @@ 14 :> 150 @@ 15 :> 225 @@
            16 :> 175 @@ 23 :> 216 @@ 24 :> 196 @@ 25 :> 254 @@ 26 :> 151 @@ 27 :> 216 @@
            28 :> 184),
     y |-> (0 :> 60 @@ 11 :> 100 @@ 12 :> 100 @@ 13 :> 150 @@ 14 :> 150 @@ 15 :> 215 @@
            16 :> 215 @@ 23 :> 220 @@ 24 :> 220 @@ 25 :> 290 @@ 26 :> 290 @@ 27 :> 360 @@
            28 :> 360),
     angle |-> (<<24, 26, 28>> :> 122 @@ <<23, 25, 27>> :> 123 @@ <<12, 14, 16>> :> 128 @@
                <<11, 13, 15>> :> 128 @@ <<14, 12, 24>> :> 39 @@
                <<13, 11, 23>> :> 33 @@ <<12, 24, 26>> :> 140)]

BatShapeC ==
    [x |-> (0 :> 248 @@ 11 :> 220 @@ 12 :> 180 @@ 13 :> 250 @@ 14 :> 150 @@ 15 :> 299 @@
            16 :> 101 @@ 23 :> 208 @@ 24 :> 188 @@ 25 :> 274 @@ 26 :> 124 @@ 27 :> 210 @@
            28 :> 190),
     y |-> (0 :> 60 @@ 11 :> 100 @@ 12 :> 100 @@ 13 :> 150 @@ 14 :> 150 @@ 15 :> 130 @@
            16 :> 130 @@ 23 :> 220 @@ 24 :> 220 @@ 25 :> 290 @@ 26 :> 290 @@ 27 :> 360 @@
            28 :> 360),
     angle |-> (<<24, 26, 28>> :> 94 @@ <<23, 25, 27>> :> 94 @@ <<12, 14, 16>> :> 99 @@
                <<11, 13, 15>> :> 99 @@ <<14, 12, 24>> :> 35 @@
                <<13, 11, 23>> :> 37 @@ <<12, 24, 26>> :> 134)]

BatShape(s) == IF s = "B" THEN BatShapeB ELSE IF s = "C" THEN BatShapeC ELSE BatShapeA

\* The pitching poses A (elbow extended and raised), B (elbow bent, level with
\* the shoulder, trunk leaning forward) and C (elbow folded and dropped,
\* shoulders open, short stride).
PitShapeA ==
    [x |-> (0 :> 200 @@ 11 :> 220 @@ 12 :> 180 @@ 13 :> 250 @@ 14 :> 144 @@ 15 :> 270 @@
            16 :> 100 @@ 23 :> 212 @@ 24 :> 188 @@ 25 :> 100 @@ 26 :> 300 @@ 27 :> 80 @@
            28 :> 320),
     y |-> (0 :> 60 @@ 11 :> 100 @@ 12 :> 100 @@ 13 :> 150 @@ 14 :> 80 @@ 15 :> 200 @@
            16 :> 40 @@ 23 :> 220 @@ 24 :> 220 @@ 25 :> 290 @@ 26 :> 290 @@ 27 :> 360 @@
            28 :> 360),
     angle |-> (<<24, 26, 28>> :> 138 @@ <<23, 25, 27>> :> 138 @@ <<12, 14, 16>> :> 167 @@
                <<11, 13, 15>> :> 171 @@ <<14, 12, 24>> :> 123 @@
                <<13, 11, 23>> :> 35 @@ <<12, 24, 26>> :> 126)]

PitShapeB ==
    [x |-> (0 :> 200 @@ 11 :> 220 @@ 12 :> 180 @@ 13 :> 250 @@ 14 :> 179 @@ 15 :> 270 @@
            16 :> 140 @@ 23 :> 210 @@ 24 :> 190 @@ 25 :> 150 @@ 26 :> 250 @@ 27 :> 130 @@
            28 :> 270),
     y |-> (0 :> 260 @@ 11 :> 100 @@ 12 :> 100 @@ 13 :> 150 @@ 14 :> 100 @@ 15 :> 200 @@
            16 :> 40 @@ 23 :> 220 @@ 24 :> 220 @@ 25 :> 290 @@ 26 :> 290 @@ 27 :> 360 @@
            28 :> 360),
     angle |-> (<<24, 26, 28>> :> 155 @@ <<23, 25, 27>> :> 155 @@ <<12, 14, 16>> :> 123 @@
                <<11, 13, 15>> :> 171 @@ <<14, 12, 24>> :> 95 @@
                <<13, 11, 23>> :> 36 @@ <<12, 24, 26>> :> 144)]

PitShapeC ==
    [x |-> (0 :> 200 @@ 11 :> 230 @@ 12 :> 180 @@ 13 :> 250 @@ 14 :> 33 @@ 15 :> 270 @@
            16 :> 180 @@ 23 :> 210 @@ 24 :> 190 @@ 25 :> 170 @@ 26 :> 230 @@ 27 :> 150 @@
            28 :> 250),
     y |-> (0 :> 60 @@ 11 :> 130 @@ 12 :> 100 @@ 13 :> 150 @@ 14 :> 120 @@ 15 :> 200 @@
            16 :> 40 @@ 23 :> 220 @@ 24 :> 220 @@ 25 :> 290 @@ 26 :> 290 @@ 27 :> 360 @@
            28 :> 360),
     angle |-> (<<24, 26, 28>> :> 166 @@ <<23, 25, 27>> :> 166 @@ <<12, 14, 16>> :> 21 @@
                <<11, 13, 15>> :> 157 @@ <<14, 12, 24>> :> 87 @@
                <<13, 11, 23>> :> 58 @@ <<12, 24, 26>> :> 155)]

PitShape(s) == IF s = "B" THEN PitShapeB ELSE IF s = "C" THEN PitShapeC ELSE PitShapeA

\* The pose named name, with the joints of shape sh.
EvalPose(sh, name) ==
    [present |-> name # "none",
     vis |-> [k \in EvalJoints |->
                IF name = "hidden" \/ (name = "L" /\ k \in RightSide)
                THEN 10 ELSE 90],
     x |-> sh.x, y |-> sh.y, angle |-> sh.angle]

BatPoseNames == {"none", "hidden", "L", "A", "B", "C"}
PitPoseNames == {"none", "hidden", "A", "B", "C"}

BatPoses == [name \in BatPoseNames |-> EvalPose(BatShape(name), name)]
PitPoses == [name \in PitPoseNames |-> EvalPose(PitShape(name), name)]

\* landmarks_history.get(f): frames before the first have no entry; every
\* frame an evaluator reads at or after frame 0 is in the history.
EvalGet(h, f, poses) == IF f < 0 THEN poses["none"] ELSE poses[h[f]]

\* lm[k][3] > 0.5
Seen(lm, k) == lm.vis[k] > 50
\* lm is not None and all(lm[i][3] > 0.5 for i in ks)
AllSeen(lm, ks) == lm.present /\ \A k \in ks : Seen(lm, k)

\* calc_angle((lm[a][0], lm[a][1]), (lm[b][0], lm[b][1]), (lm[c][0], lm[c][1]))
calc_angle(lm, a, b, c) == lm.angle[<<a, b, c>>]

\* int(max_score * tenths / 10)
IntTenths(max_score, tenths) == (max_score * tenths) \div 10

(***************************************************************************)
(* swing_detector.calc_weight_shift: one entry <<frame, 2 * cog_x,         *)
(* shift_ratio>> per usable frame, shift_ratio an exact fraction <<n, d>>. *)
(***************************************************************************)
BatGet(h, f) == EvalGet(h, f, BatPoses)

WeightUsable(lm) == lm.present /\ \A k \in {23, 24, 27, 28} : ~(lm.vis[k] < 50)

WeightEntry(lm, f) ==
    LET foot_span == Abs(lm.x[27] - lm.x[28])
        low_foot == Min(lm.x[27], lm.x[28])
    IN <<f, lm.x[23] + lm.x[24],
         IF foot_span > 4
         THEN <<lm.x[23] + lm.x[24] - 2 * low_foot, 2 * foot_span>>
         ELSE <<1, 2>> >>

RECURSIVE WeightFrom(_, _, _)
WeightFrom(h, f, end) ==
    IF f > end THEN <<>>
    ELSE (IF WeightUsable(BatGet(h, f)) THEN <<WeightEntry(BatGet(h, f), f)>> ELSE <<>>)
         \o WeightFrom(h, f + 1, end)

calc_weight_shift(h, swing) == WeightFrom(h, swing[1], swing[2])

(***************************************************************************)
(* batting_evaluator.evaluate_batting                                      *)
(***************************************************************************)
BattingMax ==
    [knee_bend |-> 20, elbow_extension |-> 20, step_width |-> 15,
     weight_shift |-> 20, follow_through |-> 15, head_stability |-> 10]

\* 1. knee: the first fully visible leg of the stance frame decides.
KneeBand(angle) ==
    IF 130 <= angle /\ angle <= 155 THEN BattingMax.knee_bend
    ELSE IF Abs(angle - 130) <= 20 \/ Abs(angle - 155) <= 20
         THEN IntTenths(BattingMax.knee_bend, 6)
    ELSE IntTenths(BattingMax.knee_bend, 3)

KneeScore(h, swing) ==
    LET start == swing[1]
        stance_frame == IF start > 5 THEN start - 5 ELSE start
        lm == BatGet(h, stance_frame)
    IN IF AllSeen(lm, {24, 26, 28}) THEN KneeBand(calc_angle(lm, 24, 26, 28))
       ELSE IF AllSeen(lm, {23, 25, 27}) THEN KneeBand(calc_angle(lm, 23, 25, 27))
       ELSE 0

\* 2. elbow at the peak frame: best_angle starts at 0 and is banded whenever
\* the peak frame has a pose.
BestElbowAngle(peak_lm) ==
    Max(IF AllSeen(peak_lm, {11, 13, 15}) THEN calc_angle(peak_lm, 11, 13, 15) ELSE 0,
        IF AllSeen(peak_lm, {12, 14, 16}) THEN calc_angle(peak_lm, 12, 14, 16) ELSE 0)

ElbowBand(best_angle) ==
    IF 140 <= best_angle /\ best_angle <= 175 THEN BattingMax.elbow_extension
    ELSE IF Abs(best_angle - 140) <= 20 THEN IntTenths(BattingMax.elbow_extension, 6)
    ELSE IntTenths(BattingMax.elbow_extension, 3)

ElbowScore(h, swing) ==
    LET peak_lm == BatGet(h, swing[3])
        best_angle == BestElbowAngle(peak_lm)
    IN IF ~peak_lm.present THEN 0 ELSE ElbowBand(best_angle)

\* 3. step width over shoulder width at the peak frame, ideal range 1.0 .. 1.6.
StepBandWrongMax(step_w, shoulder_w) ==
    IF 10 * step_w >= 10 * shoulder_w /\ 10 * step_w <= 16 * shoulder_w
    THEN BattingMax.knee_bend
    ELSE IF Abs(10 * step_w - 10 * shoulder_w) <= 3 * shoulder_w
            \/ Abs(10 * step_w - 16 * shoulder_w) <= 3 * shoulder_w
         THEN IntTenths(BattingMax.knee_bend, 6)
    ELSE IntTenths(BattingMax.knee_bend, 3)

StepBand(step_w, shoulder_w) ==
    IF 10 * step_w >= 10 * shoulder_w /\ 10 * step_w <= 16 * shoulder_w
    THEN BattingMax.step_width
    ELSE IF Abs(10 * step_w - 10 * shoulder_w) <= 3 * shoulder_w
            \/ Abs(10 * step_w - 16 * shoulder_w) <= 3 * shoulder_w
         THEN IntTenths(BattingMax.step_width, 6)
    ELSE IntTenths(BattingMax.step_width, 3)

StepScore(h, swing) ==
    LET peak_lm == BatGet(h, swing[3])
        step_w == Abs(peak_lm.x[27] - peak_lm.x[28])
        shoulder_w == Abs(peak_lm.x[11] - peak_lm.x[12])
    IN IF AllSeen(peak_lm, {27, 28, 11, 12}) /\ shoulder_w > 4
       THEN StepBand(step_w, shoulder_w)
       ELSE 0

\* 4. weight shift: |end_ratio - start_ratio| against 0.15 and 0.08.
ShiftAbove(first, last, hundredths) ==
    100 * Abs(last[1] * first[2] - first[1] * last[2]) > hundredths * first[2] * last[2]

\* weight_data is None (the default) or a list.
WeightScore(weight_data) ==
    IF weight_data.defined /\ Len(weight_data.value) >= 3
    THEN LET start_ratio == weight_data.value[1][3]
             end_ratio == weight_data.value[Len(weight_data.value)][3]
         IN IF ShiftAbove(start_ratio, end_ratio, 15) THEN BattingMax.weight_shift
            ELSE IF ShiftAbove(start_ratio, end_ratio, 8)
                 THEN IntTenths(BattingMax.weight_shift, 6)
            ELSE IntTenths(BattingMax.weight_shift, 3)
    ELSE 0

\* 5. follow-through: the first fully visible arm of the follow frame decides.
FollowBand(angle) ==
    IF angle > 150 THEN BattingMax.follow_through
    ELSE IF angle > 120 THEN IntTenths(BattingMax.follow_through, 6)
    ELSE IntTenths(BattingMax.follow_through, 3)

FollowScore(h, swing) ==
    LET follow_frame == Min(swing[3] + 10, swing[2])
        follow_lm == BatGet(h, follow_frame)
    IN IF AllSeen(follow_lm, {12, 14, 16}) THEN FollowBand(calc_angle(follow_lm, 12, 14, 16))
       ELSE IF AllSeen(follow_lm, {11, 13, 15}) THEN FollowBand(calc_angle(follow_lm, 11, 13, 15))
       ELSE 0

\* 6. head stability over range(start, min(end + 1, peak + 5)).
SetMax(S) == CHOOSE m \in S : \A v \in S : v <= m
SetMin(S) == CHOOSE m \in S : \A v \in S : m <= v

HeadScore(h, swing) ==
    LET frames == {f \in swing[1]..(Min(swing[2] + 1, swing[3] + 5) - 1) :
                      AllSeen(BatGet(h, f), {0})}
        xs == {BatGet(h, f).x[0] : f \in frames}
        ys == {BatGet(h, f).y[0] : f \in frames}
    IN IF Cardinality(frames) >= 3
       THEN LET x_range == SetMax(xs) - SetMin(xs)
                y_range == SetMax(ys) - SetMin(ys)
                movement2 == x_range * x_range + y_range * y_range
            IN IF movement2 < 20 * 20 THEN BattingMax.head_stability
               ELSE IF movement2 < 40 * 40 THEN IntTenths(BattingMax.head_stability, 6)
               ELSE IntTenths(BattingMax.head_stability, 3)
       ELSE 0

Detail(name, score, max) == [name |-> name, score |-> score, max |-> max]

BattingDetails(h, swing, weight_data) ==
    << Detail("knee_bend", KneeScore(h, swing), BattingMax.knee_bend),
       Detail("elbow_extension", ElbowScore(h, swing), BattingMax.elbow_extension),
       Detail("step_width", StepScore(h, swing), BattingMax.step_width),
       Detail("weight_shift", WeightScore(weight_data), BattingMax.weight_shift),
       Detail("follow_through", FollowScore(h, swing), BattingMax.follow_through),
       Detail("head_stability", HeadScore(h, swing), BattingMax.head_stability) >>

\* total = sum(d["score"] for d in details)
TotalScore(ds) == SumSeq([i \in 1..Len(ds) |-> ds[i].score])

BattingGradeStrict(total) ==
    IF total > 85 THEN "S"
    ELSE IF total > 70 THEN "A"
    ELSE IF total > 55 THEN "B"
    ELSE IF total > 40 THEN "C"
    ELSE "D"

BattingGrade(total) ==
    IF total >= 85 THEN "S"
    ELSE IF total >= 70 THEN "A"
    ELSE IF total >= 55 THEN "B"
    ELSE IF total >= 40 THEN "C"
    ELSE "D"

\* The returned dict; evaluate_batting reports no injury_risk.
evaluate_batting(h, swing, weight_data) ==
    LET ds == BattingDetails(h, swing, weight_data)
    IN [total_score |-> TotalScore(ds), grade |-> BattingGrade(TotalScore(ds)),
        injury_risk |-> "none", details |-> ds]

(***************************************************************************)
(* pitching_evaluator (arm = "right")                                      *)
(***************************************************************************)
PitGet(h, f) == EvalGet(h, f, PitPoses)

PitchingMax ==
    [elbow_safety |-> 25, shoulder_safety |-> 25, body_usage |-> 20,
     stride |-> 15, follow_through |-> 15]

\* check_elbow_safety: min_angle starts at 180 and runs over range(start, end + 1).
ElbowRisk(min_angle) ==
    IF min_angle < 120 THEN "danger" ELSE IF min_angle < 140 THEN "warning" ELSE "safe"

check_elbow_safety(h, pitch) ==
    LET frames == {f \in pitch[1]..pitch[2] : AllSeen(PitGet(h, f), {12, 14, 16})}
        min_angle == SetMin({180} \cup {calc_angle(PitGet(h, f), 12, 14, 16) : f \in frames})
        risk_level == ElbowRisk(min_angle)
        score == IF risk_level = "danger" THEN IntTenths(PitchingMax.elbow_safety, 2)
                 ELSE IF risk_level = "warning" THEN IntTenths(PitchingMax.elbow_safety, 6)
                 ELSE PitchingMax.elbow_safety
        release_lm == PitGet(h, pitch[3])
    IN [score |-> IF AllSeen(release_lm, {12, 14, 16})
                     /\ calc_angle(release_lm, 12, 14, 16) < 150
                  THEN Max(0, score - 5) ELSE score,
        risk_level |-> risk_level]

\* check_shoulder_safety: elbow height at release, then shoulder abduction
\* over range(start, release).
check_shoulder_safety(h, pitch) ==
    LET release_lm == PitGet(h, pitch[3])
        low_elbow == /\ release_lm.present
                     /\ Seen(release_lm, 12) /\ Seen(release_lm, 14)
                     /\ ~(release_lm.y[12] - release_lm.y[14] > 8)
                     /\ ~(release_lm.y[12] - release_lm.y[14] > -8)
        risk1 == IF low_elbow THEN "warning" ELSE "safe"
        score1 == IF low_elbow THEN IntTenths(PitchingMax.shoulder_safety, 5)
                  ELSE PitchingMax.shoulder_safety
        abducted == \E f \in pitch[1]..(pitch[3] - 1) :
                        /\ AllSeen(PitGet(h, f), {12, 14, 24})
                        /\ calc_angle(PitGet(h, f), 14, 12, 24) > 110
    IN IF abducted /\ risk1 = "safe"
       THEN [score |-> IntTenths(score1, 6), risk_level |-> "warning"]
       ELSE [score |-> score1, risk_level |-> risk1]

\* rot = degrees(arctan2(|dy|, |dx|)) > 25, tan(25 deg) = 0.46631 (no pose of
\* the model lies within a degree of the threshold).
OpenShoulders(lm) ==
    100000 * Abs(lm.y[12] - lm.y[11]) > 46631 * Abs(lm.x[12] - lm.x[11])

\* max(data, key=lambda x: x[1])[0]: the first frame of maximal value.
PeakFrame(data) ==
    CHOOSE f \in DOMAIN data :
        /\ \A g \in DOMAIN data : data[g] <= data[f]
        /\ \A g \in DOMAIN data : g < f => data[g] < data[f]

check_body_usage(h, pitch) ==
    LET start == pitch[1]
        release == pitch[3]
        score == PitchingMax.body_usage
        open_early == \E f \in (start - 5)..(release - 1) :
                          /\ AllSeen(PitGet(h, f), {11, 12})
                          /\ f < start /\ OpenShoulders(PitGet(h, f))
        score1 == IF open_early THEN Max(0, score - 8) ELSE score
        frames == {f \in start..release : AllSeen(PitGet(h, f), {23, 24, 11, 12})}
        hip_rot_data == [f \in frames |-> Abs(PitGet(h, f).x[24] - PitGet(h, f).x[23])]
        shoulder_rot_data ==
            [f \in frames |-> Abs(PitGet(h, f).x[12] - PitGet(h, f).x[11])]
    IN [score |-> IF Cardinality(frames) >= 3
                     /\ ~(PeakFrame(hip_rot_data) <= PeakFrame(shoulder_rot_data))
                  THEN Max(0, score1 - 6) ELSE score1]

\* check_stride_length: ankle distance over body height at release.
check_stride_length(h, pitch) ==
    LET lm == PitGet(h, pitch[3])
        score == PitchingMax.stride
        stride_dist == Abs(lm.x[27] - lm.x[28])
        body_height == Max(lm.y[27], lm.y[28]) - lm.y[0]
    IN [score |->
          IF AllSeen(lm, {27, 28, 0}) /\ body_height > 40
          THEN IF 100 * stride_dist >= 70 * body_height
                  /\ 100 * stride_dist <= 95 * body_height THEN score
               ELSE IF 100 * stride_dist < 60 * body_height THEN IntTenths(score, 5)
               ELSE IF 100 * stride_dist > 100 * body_height THEN IntTenths(score, 6)
               ELSE IntTenths(score, 8)
          ELSE score]

\* total_movement: the path length through the sorted visible wrist positions.
RECURSIVE PathLength(_, _)
PathLength(h, frames) ==
    IF Cardinality(frames) < 2 THEN 0
    ELSE LET f == SetMin(frames)
             g == SetMin(frames \ {f})
         IN Hypot(PitGet(h, g).x[16] - PitGet(h, f).x[16],
                  PitGet(h, g).y[16] - PitGet(h, f).y[16])
            + PathLength(h, frames \ {f})

check_follow_through(h, pitch, fpsv) ==
    LET end == pitch[2]
        release == pitch[3]
        score == PitchingMax.follow_through
        follow_frames == Min(end, IF fpsv > 0 THEN release + IntMul(fpsv, 3, 10)
                                  ELSE release + 10)
        frames == {f \in release..follow_frames : AllSeen(PitGet(h, f), {16})}
        score1 == IF Cardinality(frames) >= 3 /\ ~(PathLength(h, frames) > 20)
                  THEN IntTenths(score, 5) ELSE score
        follow_lm == PitGet(h, follow_frames)
    IN [score |-> IF AllSeen(follow_lm, {0, 24})
                     /\ ~(follow_lm.y[0] - follow_lm.y[24] > 20)
                  THEN Max(0, score1 - 3) ELSE score1]

PitchingGrade(total) ==
    IF total >= 85 THEN "S"
    ELSE IF total >= 70 THEN "A"
    ELSE IF total >= 55 THEN "B"
    ELSE IF total >= 40 THEN "C"
    ELSE "D"

InjuryRiskBothDanger(elbow_risk, shoulder_risk) ==
    IF elbow_risk = "danger" /\ shoulder_risk = "danger" THEN "high"
    ELSE IF elbow_risk = "warning" \/ shoulder_risk = "warning" THEN "medium"
    ELSE "low"

InjuryRisk(elbow_risk, shoulder_risk) ==
    IF elbow_risk = "danger" \/ shoulder_risk = "danger" THEN "high"
    ELSE IF elbow_risk = "warning" \/ shoulder_risk = "warning" THEN "medium"
    ELSE "low"

evaluate_pitching(h, pitch, fpsv) ==
    LET elbow == check_elbow_safety(h, pitch)
        shoulder == check_shoulder_safety(h, pitch)
        body == check_body_usage(h, pitch)
        stride == check_stride_length(h, pitch)
        follow == check_follow_through(h, pitch, fpsv)
        ds == << Detail("elbow_safety", elbow.score, PitchingMax.elbow_safety),
                 Detail("shoulder_safety", shoulder.score, PitchingMax.shoulder_safety),
                 Detail("body_usage", body.score, PitchingMax.body_usage),
                 Detail("stride", stride.score, PitchingMax.stride),
                 Detail("follow_through", follow.score, PitchingMax.follow_through) >>
    IN [total_score |-> TotalScore(ds), grade |-> PitchingGrade(TotalScore(ds)),
        injury_risk |-> InjuryRisk(elbow.risk_level, shoulder.risk_level),
        details |-> ds,
        risk_levels |-> [elbow |-> elbow.risk_level, shoulder |-> shoulder.risk_level]]

(***************************************************************************)
(* Evaluator specification (app.py): the best interval and the landmark    *)
(* history are handed to calc_weight_shift and evaluate_batting, or to     *)
(* evaluate_pitching.  The intervals are the shortest ones the detectors   *)
(* emit with their default minimum durations; a history gives the pose of  *)
(* every frame the evaluator reads.                                        *)
(***************************************************************************)
EvalSwings ==
    {<<start, start + DefaultMinSwingFrames, start + k, Scale>> :
        start \in {1, 6}, k \in {0, 1, DefaultMinSwingFrames}}

\* The frames evaluate_batting and calc_weight_shift read for a swing.
BatEvalFrames(swing) ==
    {IF swing[1] > 5 THEN swing[1] - 5 ELSE swing[1]} \cup (swing[1]..swing[2])

EvalPitches ==
    {<<1, 1 + DefaultMinFrames, release, Scale>> : release \in {1, 3, 1 + DefaultMinFrames}}

PitEvalFpsSet == {5, 30}

\* The frames evaluate_pitching reads for a pitch.
PitEvalFrames(pitch) == Max(0, pitch[1] - 5)..pitch[2]

InitEvalBatting ==
    /\ pc = "bat_eval"
    /\ interval \in EvalSwings
    /\ history \in [BatEvalFrames(interval) -> BatPoseNames]
    /\ fps = 30

InitEvalPitching ==
    /\ pc = "pit_eval"
    /\ interval \in EvalPitches
    /\ history \in [PitEvalFrames(interval) -> PitPoseNames]
    /\ fps \in PitEvalFpsSet

InitEval ==
    /\ InitEvalBatting \/ InitEvalPitching
    /\ speeds = <<>> /\ min_frames = NotCalled /\ speed_threshold = 0
    /\ swings = <<>> /\ pitches = <<>> /\ phases = <<>>
    /\ obs = <<>> /\ details = <<>> /\ evaluation = <<>>
    /\ sync = <<>> /\ mapping = <<>>

\* wd = calc_weight_shift(all_lm, best)
WeightShift ==
    /\ pc = "bat_eval"
    /\ obs' = calc_weight_shift(history, interval)
    /\ pc' = "bat_weight"
    /\ UNCHANGED <<fps, history, speeds, min_frames, speed_threshold, swings,
                   pitches, interval, phases, details, evaluation, sync, mapping>>

\* ev = evaluate_batting(all_lm, best, wd)
EvaluateBatting ==
    /\ pc = "bat_weight"
    /\ LET ev == evaluate_batting(history, interval, Some(obs))
       IN /\ details' = ev.details
          /\ evaluation' = [total_score |-> ev.total_score, grade |-> ev.grade,
                            injury_risk |-> ev.injury_risk]
    /\ pc' = "bat_evaluated"
    /\ UNCHANGED <<fps, history, speeds, min_frames, speed_threshold, swings,
                   pitches, interval, phases, obs, sync, mapping>>

\* p_ev = evaluate_pitching(all_lm, best_p, fps, arm=arm); obs keeps the
\* risk levels of the elbow and shoulder sub-checks.
EvaluatePitching ==
    /\ pc = "pit_eval"
    /\ LET ev == evaluate_pitching(history, interval, fps)
       IN /\ details' = ev.details
          /\ obs' = ev.risk_levels
          /\ evaluation' = [total_score |-> ev.total_score, grade |-> ev.grade,
                            injury_risk |-> ev.injury_risk]
    /\ pc' = "pit_evaluated"
    /\ UNCHANGED <<fps, history, speeds, min_frames, speed_threshold, swings,
                   pitches, interval, phases, sync, mapping>>

NextEval == WeightShift \/ EvaluateBatting \/ EvaluatePitching

SpecEval == InitEval /\ [][NextEval]_vars

(***************************************************************************)
(* comparison.align_frames                                                 *)
(***************************************************************************)
AlignStartANoShift(sync_a, sync_b) == 0

\* start_a = max(0, sync_a - sync_b) if sync_b < sync_a else 0
AlignStartA(sync_a, sync_b) == IF sync_b < sync_a THEN Max(0, sync_a - sync_b) ELSE 0
\* start_b = max(0, sync_b - sync_a) if sync_a < sync_b else 0
AlignStartB(sync_a, sync_b) == IF sync_a < sync_b THEN Max(0, sync_b - sync_a) ELSE 0

RECURSIVE AlignLoopInclusive(_, _, _, _)
AlignLoopInclusive(fa, fb, total_a, total_b) ==
    IF fa <= total_a /\ fb < total_b
    THEN << <<fa, fb>> >> \o AlignLoopInclusive(fa + 1, fb + 1, total_a, total_b)
    ELSE <<>>

\* while fa < total_a and fb < total_b: mapping.append((fa, fb)); fa += 1; fb += 1
RECURSIVE AlignLoop(_, _, _, _)
AlignLoop(fa, fb, total_a, total_b) ==
    IF fa < total_a /\ fb < total_b
    THEN << <<fa, fb>> >> \o AlignLoop(fa + 1, fb + 1, total_a, total_b)
    ELSE <<>>

align_frames(total_a, total_b, sync_a, sync_b) ==
    AlignLoop(AlignStartA(sync_a, sync_b), AlignStartB(sync_a, sync_b), total_a, total_b)

(***************************************************************************)
(* Alignment specification (app.py): the frame counts of the two videos,   *)
(* the anchor of video A and the anchor of video B shifted by the manual   *)
(* offset are handed to align_frames; an empty mapping is replaced by the  *)
(* one-to-one mapping for display.                                         *)
(***************************************************************************)
MaxTotal == 4
MaxOffset == 2

InitAlign ==
    /\ pc = "align"
    /\ \E total_a, total_b, sync_a \in 0..MaxTotal :
       \E manual_offset \in (-MaxOffset)..MaxOffset :
       \E anchor_b \in 0..MaxTotal :
          sync = [total_a |-> total_a, total_b |-> total_b,
                  sync_a |-> sync_a, sync_b |-> anchor_b + manual_offset,
                  manual_offset |-> manual_offset]
    /\ fps = 0 /\ history = <<>> /\ interval = <<>> /\ phases = <<>>
    /\ speeds = <<>> /\ min_frames = NotCalled /\ speed_threshold = 0
    /\ swings = <<>> /\ pitches = <<>>
    /\ obs = <<>> /\ details = <<>> /\ evaluation = <<>> /\ mapping = <<>>

\* mapping = align_frames(reader_a.total_frames, reader_b.total_frames, sync_a, sync_b)
\* if not mapping: mapping = [(i, i) for i in range(min(total_a, total_b))]
\* mapping keeps the value align_frames returned, obs the mapping displayed.
AlignFrames ==
    /\ pc = "align"
    /\ mapping' = align_frames(sync.total_a, sync.total_b, sync.sync_a, sync.sync_b)
    /\ obs' = IF mapping' = <<>>
              THEN [i \in 1..Min(sync.total_a, sync.total_b) |-> <<i - 1, i - 1>>]
              ELSE mapping'
    /\ pc' = "aligned"
    /\ UNCHANGED <<fps, history, speeds, min_frames, speed_threshold, swings,
                   pitches, interval, phases, details, evaluation, sync>>

NextAlign == AlignFrames

SpecAlign == InitAlign /\ [][NextAlign]_vars

(***************************************************************************)
(* comparison.find_sync_point_batting / find_sync_point_pitching           *)
(***************************************************************************)
\* best = max(swings, key=lambda s: s[3]) is BestOf; the frame of it that
\* sync_mode selects, an unknown mode selecting the start frame.
BattingLandmark(best, sync_mode) ==
    IF sync_mode = "swing_start" THEN best[1]
    ELSE IF sync_mode = "impact" THEN best[3]
    ELSE IF sync_mode = "swing_end" THEN best[2]
    ELSE best[1]

PitchingLandmark(best, sync_mode) ==
    IF sync_mode = "pitch_start" THEN best[1]
    ELSE IF sync_mode = "release" THEN best[3]
    ELSE IF sync_mode = "pitch_end" THEN best[2]
    ELSE best[1]

FindSyncPointKeepOther(swings_a, swings_b, sync_mode) ==
    <<IF swings_a = <<>> THEN 0 ELSE BattingLandmark(BestOf(swings_a), sync_mode),
      IF swings_b = <<>> THEN 0 ELSE BattingLandmark(BestOf(swings_b), sync_mode)>>

find_sync_point_batting(swings_a, swings_b, sync_mode) ==
    IF swings_a = <<>> \/ swings_b = <<>> THEN <<0, 0>>
    ELSE <<BattingLandmark(BestOf(swings_a), sync_mode),
           BattingLandmark(BestOf(swings_b), sync_mode)>>

\* Only the empty side falls back to frame 0.
FindSyncPointPitchingKeepOther(pitches_a, pitches_b, sync_mode) ==
    <<IF pitches_a = <<>> THEN 0 ELSE PitchingLandmark(BestOf(pitches_a), sync_mode),
      IF pitches_b = <<>> THEN 0 ELSE PitchingLandmark(BestOf(pitches_b), sync_mode)>>

find_sync_point_pitching(pitches_a, pitches_b, sync_mode) ==
    IF pitches_a = <<>> \/ pitches_b = <<>> THEN <<0, 0>>
    ELSE <<PitchingLandmark(BestOf(pitches_a), sync_mode),
           PitchingLandmark(BestOf(pitches_b), sync_mode)>>

\* if mode == batting: find_sync_point_batting(...) else: find_sync_point_pitching(...)
FindSyncPoint(mode, intervals_a, intervals_b, sync_mode) ==
    IF mode = "batting" THEN find_sync_point_batting(intervals_a, intervals_b, sync_mode)
    ELSE find_sync_point_pitching(intervals_a, intervals_b, sync_mode)

(***************************************************************************)
(* Synchronisation specification (app.py, comparison mode): after both     *)
(* videos are analysed the mapping is built from the start landmarks; on   *)
(* every later rendering it is rebuilt from the selected landmark and the  *)
(* manual offset, or, when a video has no detected motion, from anchor 0   *)
(* and the manual offset alone.                                            *)
(***************************************************************************)
SyncFrames == 8
SyncTotals == {0, 3, SyncFrames}

\* Interval lists as the detectors return them: ascending and disjoint, each
\* interval with start <= peak <= end < SyncFrames.
SyncLists ==
    { <<>>,
      << <<1, 4, 2, 300>> >>,
      << <<2, 7, 5, 400>> >>,
      << <<0, 3, 3, 400>>, <<4, 7, 4, 400>> >>,
      << <<0, 2, 1, 300>>, <<4, 7, 6, 400>> >> }

SyncModes(mode) ==
    IF mode = "batting" THEN {"swing_start", "impact", "swing_end"}
    ELSE {"pitch_start", "release", "pitch_end"}

\* [(i, i) for i in range(n)]
IdentityMapping(n) == [i \in 1..n |-> <<i - 1, i - 1>>]

InitSync ==
    /\ pc = "analysed"
    /\ \E mode \in {"batting", "pitching"} :
       \E total_a, total_b \in SyncTotals :
       \E intervals_a, intervals_b \in SyncLists :
          /\ intervals_a # <<>> => total_a = SyncFrames
          /\ intervals_b # <<>> => total_b = SyncFrames
          /\ sync = [mode |-> mode, total_a |-> total_a, total_b |-> total_b,
                     intervals_a |-> intervals_a, intervals_b |-> intervals_b,
                     sync_mode |-> IF mode = "batting" THEN "swing_start"
                                   ELSE "pitch_start",
                     manual_offset |-> 0]
    /\ fps = 0 /\ history = <<>> /\ interval = <<>> /\ phases = <<>>
    /\ speeds = <<>> /\ min_frames = NotCalled /\ speed_threshold = 0
    /\ swings = <<>> /\ pitches = <<>>
    /\ obs = <<>> /\ details = <<>> /\ evaluation = <<>> /\ mapping = <<>>

\* The first synchronisation after the analysis of video B: obs keeps the
\* anchors handed to align_frames.
FirstSync ==
    /\ pc = "analysed"
    /\ LET anchors == FindSyncPoint(sync.mode, sync.intervals_a, sync.intervals_b,
                                    sync.sync_mode)
       IN /\ obs' = [sync_a |-> anchors[1], sync_b |-> anchors[2]]
          /\ mapping' = align_frames(sync.total_a, sync.total_b, anchors[1], anchors[2])
    /\ pc' = "synced"
    /\ UNCHANGED <<fps, history, speeds, min_frames, speed_threshold, swings,
                   pitches, interval, phases, details, evaluation, sync>>

\* The synchronisation of a rendering: the operator's landmark and manual
\* offset are read; without detected motion in both videos only the offset is.
Resync ==
    /\ pc \in {"synced", "resynced"}
    /\ \E manual_offset \in (-MaxOffset)..MaxOffset :
       \E sync_mode \in SyncModes(sync.mode) :
          LET has_sync == sync.intervals_a # <<>> /\ sync.intervals_b # <<>>
              anchors == IF has_sync
                         THEN FindSyncPoint(sync.mode, sync.intervals_a,
                                            sync.intervals_b, sync_mode)
                         ELSE <<0, 0>>
              sync_a == anchors[1]
              sync_b == anchors[2] + manual_offset
              aligned == align_frames(sync.total_a, sync.total_b, sync_a, sync_b)
          IN /\ sync' = [sync EXCEPT !.sync_mode = IF has_sync THEN sync_mode ELSE @,
                                     !.manual_offset = manual_offset]
             /\ obs' = [sync_a |-> sync_a, sync_b |-> sync_b]
             /\ mapping' = IF aligned = <<>>
                           THEN IdentityMapping(Min(sync.total_a, sync.total_b))
                           ELSE aligned
    /\ pc' = "resynced"
    /\ UNCHANGED <<fps, history, speeds, min_frames, speed_threshold, swings,
                   pitches, interval, phases, details, evaluation>>

NextSync == FirstSync \/ Resync

SpecSync == InitSync /\ [][NextSync]_vars

(***************************************************************************)
(* Speed specification (app.py, Step 2 of the analysis): the history of a  *)
(* short video, frames without a pose and wrists of low confidence         *)
(* included, is turned into a speed series by one of the two calculators.  *)
(***************************************************************************)
MaxHistory == 3

\* The poses of one frame: none, or the right wrist at height 200 with x
\* and confidence drawn from small sets (0.3 and 0.5 are the two thresholds).
SpeedPoses ==
    {NoPose} \cup
    {[present |-> TRUE,
      j |-> [k \in Joints |-> IF k = 16 THEN <<x, 200, v>> ELSE <<200, 300, 90>>]] :
        x \in {0, 12}, v \in {20, 30, 50, 90}}

InitSpeed ==
    /\ pc = "history"
    /\ fps \in {0, 30}
    /\ \E n \in 0..MaxHistory : history \in [1..n -> SpeedPoses]
    /\ speeds = <<>> /\ min_frames = NotCalled /\ speed_threshold = 0
    /\ swings = <<>> /\ pitches = <<>>
    /\ interval = <<>> /\ phases = <<>>
    /\ obs = <<>> /\ details = <<>> /\ evaluation = <<>>
    /\ sync = <<>> /\ mapping = <<>>

\* wrist_speeds = calc_wrist_speed(all_landmarks, reader.fps, wrist_idx=16);
\* obs keeps the visibility threshold the calculator compared with.
CalcWristSpeed ==
    /\ pc = "history"
    /\ speeds' = calc_wrist_speed(history, fps, 16, 30)
    /\ obs' = [visibility_threshold |-> 30]
    /\ pc' = "speeds"
    /\ UNCHANGED <<fps, history, min_frames, speed_threshold, swings, pitches,
                   interval, phases, details, evaluation, sync, mapping>>

\* arm_speeds = calc_throwing_arm_speed(all_landmarks, reader.fps, arm=arm)
CalcThrowingArmSpeed ==
    /\ pc = "history"
    /\ speeds' = calc_throwing_arm_speed(history, fps)
    /\ obs' = [visibility_threshold |-> 50]
    /\ pc' = "speeds"
    /\ UNCHANGED <<fps, history, min_frames, speed_threshold, swings, pitches,
                   interval, phases, details, evaluation, sync, mapping>>

NextSpeed == CalcWristSpeed \/ CalcThrowingArmSpeed

SpecSpeed == InitSpeed /\ [][NextSpeed]_vars

(***************************************************************************)
(* Per-frame geometry (angle_analyzer.py, pitching_detector.py).  A result *)
(* that the code returns as None is the record Undefined; a value that     *)
(* numpy computes from an arctangent is kept as the pair of its arguments, *)
(* a midpoint as the doubled sum.                                          *)
(***************************************************************************)

\* BATTING_ANGLES and PITCHING_ANGLES: name -> (a, b, c), vertex b.
BATTING_ANGLES ==
    [right_elbow |-> <<12, 14, 16>>, left_elbow |-> <<11, 13, 15>>,
     right_knee |-> <<24, 26, 28>>, left_knee |-> <<23, 25, 27>>,
     right_shoulder |-> <<14, 12, 24>>, left_shoulder |-> <<13, 11, 23>>]

PITCHING_ANGLES ==
    [right_elbow |-> <<12, 14, 16>>, right_shoulder |-> <<14, 12, 24>>,
     right_knee |-> <<24, 26, 28>>, left_knee |-> <<23, 25, 27>>,
     trunk |-> <<12, 24, 26>>]

\* analyze_frame_angles(landmarks, angle_defs): {} for a missing pose, else
\* the angle of every definition whose three joints are all points.
\* (image_size only rescales the coordinates handed to calc_angle.)
analyze_frame_angles(landmarks, angle_defs) ==
    IF ~landmarks.present THEN <<>>
    ELSE LET points == {i \in DOMAIN landmarks.vis : landmarks.vis[i] > 50}
             names == {n \in DOMAIN angle_defs :
                          /\ angle_defs[n][1] \in points
                          /\ angle_defs[n][2] \in points
                          /\ angle_defs[n][3] \in points}
         IN [n \in names |-> calc_angle(landmarks, angle_defs[n][1],
                                        angle_defs[n][2], angle_defs[n][3])]

\* calc_body_rotation(landmarks): None when ls[3] < 0.5 or rs[3] < 0.5, else
\* degrees(arctan2(|dy|, |dx|)) of the shoulder line.
calc_body_rotation(landmarks) ==
    IF ~landmarks.present THEN Undefined
    ELSE IF landmarks.vis[11] < 50 \/ landmarks.vis[12] < 50 THEN Undefined
    ELSE [defined |-> TRUE,
          dy |-> Abs(landmarks.y[12] - landmarks.y[11]),
          dx |-> Abs(landmarks.x[12] - landmarks.x[11])]

\* calc_center_of_gravity(landmarks): None when lh[3] < 0.5 or rh[3] < 0.5,
\* else the midpoint of the hips.
calc_center_of_gravity(landmarks) ==
    IF ~landmarks.present THEN Undefined
    ELSE IF landmarks.vis[23] < 50 \/ landmarks.vis[24] < 50 THEN Undefined
    ELSE [defined |-> TRUE,
          x2 |-> landmarks.x[23] + landmarks.x[24],
          y2 |-> landmarks.y[23] + landmarks.y[24]]

\* landmarks_history.get(release_frame)
GeoGet(h, f) == IF f \in DOMAIN h THEN h[f] ELSE PitPoses["none"]

\* wrist_idx, shoulder_idx, elbow_idx, hip_idx and the ankle of the arm's side
ArmJoints(arm) ==
    IF arm = "right"
    THEN [wrist |-> 16, shoulder |-> 12, elbow |-> 14, hip |-> 24, ankle |-> 28]
    ELSE [wrist |-> 15, shoulder |-> 11, elbow |-> 13, hip |-> 23, ankle |-> 27]

\* body_height > 0.01, in coordinate units of 1/Scale
MinBodyHeight == 4

\* detect_release_point(landmarks_history, pitch, fps, arm)
detect_release_point(h, pitch, fpsv, arm) ==
    LET release_frame == pitch[3]
        lm == GeoGet(h, release_frame)
        wrist == ArmJoints(arm).wrist
        shoulder == ArmJoints(arm).shoulder
        elbow == ArmJoints(arm).elbow
        hip == ArmJoints(arm).hip
        ankle == ArmJoints(arm).ankle
        body_height == Abs(lm.y[ankle] - lm.y[0])
    IN IF ~lm.present THEN Undefined
       ELSE IF \E pt \in {wrist, shoulder, elbow, 0} : lm.vis[pt] < 50
       THEN Undefined
       ELSE [defined |-> TRUE,
             frame |-> release_frame,
             position |-> <<lm.x[wrist], lm.y[wrist]>>,
             height_ratio |->
                 IF lm.vis[0] > 50 /\ lm.vis[ankle] > 50 /\ body_height > MinBodyHeight
                 THEN [defined |-> TRUE,
                       release_height |-> Abs(lm.y[ankle] - lm.y[wrist]),
                       body_height |-> body_height]
                 ELSE Undefined,
             forward_distance |-> lm.x[wrist] - lm.x[0],
             elbow_angle |-> calc_angle(lm, shoulder, elbow, wrist),
             shoulder_angle |->
                 IF lm.vis[hip] > 50
                 THEN [defined |-> TRUE, value |-> calc_angle(lm, elbow, shoulder, hip)]
                 ELSE Undefined]

\* calc_arm_slot(landmarks_history, release_frame, arm): None when
\* shoulder[3] < 0.5 or wrist[3] < 0.5, else degrees(arctan2(dy, |dx|)).
calc_arm_slot(h, release_frame, arm) ==
    LET lm == GeoGet(h, release_frame)
        shoulder == ArmJoints(arm).shoulder
        wrist == ArmJoints(arm).wrist
    IN IF ~lm.present THEN Undefined
       ELSE IF lm.vis[shoulder] < 50 \/ lm.vis[wrist] < 50 THEN Undefined
       ELSE [defined |-> TRUE,
             dy |-> lm.y[shoulder] - lm.y[wrist],
             dx |-> Abs(lm.x[wrist] - lm.x[shoulder])]

(***************************************************************************)
(* Geometry specification (app.py, single-video analysis of one frame):    *)
(* the pose of the release frame is read and one of the per-frame          *)
(* measurements is taken.  The confidences of the joints the measurements  *)
(* test are drawn from below, at and above 0.5.                            *)
(***************************************************************************)
GeoJoints == {0, 11, 12, 14, 16, 23, 24, 28}

GeoPose(v) ==
    [present |-> TRUE,
     vis |-> [k \in EvalJoints |-> IF k \in GeoJoints THEN v[k] ELSE 90],
     x |-> PitShapeA.x, y |-> PitShapeA.y, angle |-> PitShapeA.angle]

InitGeometry ==
    /\ pc = "frame"
    /\ \/ history = <<>>
       \/ \E v \in [GeoJoints -> {40, 50, 90}] : history = (0 :> GeoPose(v))
    /\ interval = <<0, DefaultMinFrames, 0, Scale>>
    /\ fps = 30 /\ phases = <<>>
    /\ speeds = <<>> /\ min_frames = NotCalled /\ speed_threshold = 0
    /\ swings = <<>> /\ pitches = <<>>
    /\ obs = <<>> /\ details = <<>> /\ evaluation = <<>>
    /\ sync = <<>> /\ mapping = <<>>

Measured(kind, arm, result) ==
    /\ obs' = [kind |-> kind, arm |-> arm, result |-> result]
    /\ pc' = "measured"
    /\ UNCHANGED <<fps, history, speeds, min_frames, speed_threshold, swings,
                   pitches, interval, phases, details, evaluation, sync, mapping>>

AnalyzeFrameAngles ==
    /\ pc = "frame"
    /\ \E mode \in {"batting", "pitching"} :
          Measured(mode, "right",
                   analyze_frame_angles(GeoGet(history, interval[3]),
                                        IF mode = "batting" THEN BATTING_ANGLES
                                        ELSE PITCHING_ANGLES))

CalcBodyRotation ==
    /\ pc = "frame"
    /\ Measured("rotation", "right", calc_body_rotation(GeoGet(history, interval[3])))

CalcCenterOfGravity ==
    /\ pc = "frame"
    /\ Measured("cog", "right", calc_center_of_gravity(GeoGet(history, interval[3])))

DetectReleasePoint ==
    /\ pc = "frame"
    /\ \E arm \in {"right", "left"} :
          Measured("release", arm, detect_release_point(history, interval, fps, arm))

CalcArmSlot ==
    /\ pc = "frame"
    /\ \E arm \in {"right", "left"} :
          Measured("arm_slot", arm, calc_arm_slot(history, interval[3], arm))

NextGeometry ==
    \/ AnalyzeFrameAngles
    \/ CalcBodyRotation
    \/ CalcCenterOfGravity
    \/ DetectReleasePoint
    \/ CalcArmSlot

SpecGeometry == InitGeometry /\ [][NextGeometry]_vars

(***************************************************************************)
(* comparison.compare_angles.  An angle mapping is a function from angle   *)
(* names to whole degrees; angles_a and angles_b map frames to angle       *)
(* mappings.                                                               *)
(***************************************************************************)

\* angles.get(frame, {})
AnglesAt(angles, frame) == IF frame \in DOMAIN angles THEN angles[frame] ELSE <<>>

\* a.get(name)
AngleValue(a, name) == IF name \in DOMAIN a THEN Some(a[name]) ELSE Undefined

\* The angle names the model compares, in sorted order.
ComparedNames == <<"right_elbow", "right_knee">>

\* sorted(set(list(a.keys()) + list(b.keys())))
AllNames(a, b) ==
    LET names == DOMAIN a \cup DOMAIN b
        Rank(n) == CHOOSE i \in 1..Len(ComparedNames) : ComparedNames[i] = n
    IN CHOOSE s \in [1..Cardinality(names) -> names] :
          \A i, k \in 1..Cardinality(names) : i < k => Rank(s[i]) < Rank(s[k])

\* if abs_diff <= 5 ... : the first band closed at 5
AngleStatusInclusive(diff) ==
    IF Abs(diff) <= 5 THEN "same"
    ELSE IF Abs(diff) < 15 THEN "minor"
    ELSE "major"

\* if abs_diff < 5: "same" elif abs_diff < 15: "minor" else: "major"
AngleStatus(diff) ==
    IF Abs(diff) < 5 THEN "same"
    ELSE IF Abs(diff) < 15 THEN "minor"
    ELSE "major"

\* One entry of diffs.
AngleDiff(a, b, name) ==
    LET va == AngleValue(a, name)
        vb == AngleValue(b, name)
    IN IF va.defined /\ vb.defined
       THEN [name |-> name, value_a |-> va, value_b |-> vb,
             diff |-> Some(vb.value - va.value),
             status |-> AngleStatus(vb.value - va.value)]
       ELSE [name |-> name, value_a |-> va, value_b |-> vb,
             diff |-> Undefined, status |-> "missing"]

compare_angles(angles_a, angles_b, frame_a, frame_b) ==
    LET a == AnglesAt(angles_a, frame_a)
        b == AnglesAt(angles_b, frame_b)
        all_names == AllNames(a, b)
    IN [i \in 1..Len(all_names) |-> AngleDiff(a, b, all_names[i])]

(***************************************************************************)
(* Comparison specification (app.py, angle comparison table): both videos  *)
(* hold the angles of frame 0 and none for frame 1; the angles of the      *)
(* displayed frame pair are compared.                                      *)
(***************************************************************************)
\* The values straddle the bands: differences of 4, 5, 14, 15 and more.
AngleVals == {90, 94, 95, 104, 105, 120}

ComparedNameSet == {ComparedNames[i] : i \in 1..Len(ComparedNames)}

\* The angle mappings of one frame: any subset of the names, any values.
AngleMappings ==
    UNION {[names -> AngleVals] : names \in SUBSET ComparedNameSet}

InitCompare ==
    /\ pc = "compare"
    /\ \E a, b \in AngleMappings :
          sync = [angles_a |-> (0 :> a), angles_b |-> (0 :> b)]
    /\ fps = 0 /\ history = <<>> /\ interval = <<>> /\ phases = <<>>
    /\ speeds = <<>> /\ min_frames = NotCalled /\ speed_threshold = 0
    /\ swings = <<>> /\ pitches = <<>>
    /\ obs = <<>> /\ details = <<>> /\ evaluation = <<>> /\ mapping = <<>>

\* angle_diffs = compare_angles(all_angles, all_angles_b, frame_a_idx, frame_b_idx)
CompareAngles ==
    /\ pc = "compare"
    /\ \E frame_a, frame_b \in 0..1 :
          /\ interval' = <<frame_a, frame_b>>
          /\ details' = compare_angles(sync.angles_a, sync.angles_b, frame_a, frame_b)
    /\ pc' = "compared"
    /\ UNCHANGED <<fps, history, speeds, min_frames, speed_threshold, swings,
                   pitches, phases, obs, evaluation, sync, mapping>>

NextCompare == CompareAngles

SpecCompare == InitCompare /\ [][NextCompare]_vars

(***************************************************************************)
(* Claims about the detectors.                                             *)
(***************************************************************************)
SeqToSet(s) == {s[i] : i \in 1..Len(s)}

\* C1: every interval (start, end, peak, peak_speed) returned by detect_swings
\* and by detect_pitch_motion has start <= peak <= end and end - start >= the
\* minimum-duration parameter of the call.
C1_IntervalBounds ==
    /\ \A iv \in SeqToSet(swings) :
          iv[1] <= iv[3] /\ iv[3] <= iv[2] /\ iv[2] - iv[1] >= min_frames.swing
    /\ \A iv \in SeqToSet(pitches) :
          iv[1] <= iv[3] /\ iv[3] <= iv[2] /\ iv[2] - iv[1] >= min_frames.pitch

\* Both detectors ran on the same series and each emitted an interval: a swing
\* whose peak lies strictly inside it, a pitch of exactly the minimum duration.
C1_Witness ==
    /\ min_frames.swing > 0 /\ min_frames.pitch > 0
    /\ \E iv \in SeqToSet(swings) : iv[1] < iv[3] /\ iv[3] < iv[2]
    /\ \E iv \in SeqToSet(pitches) : iv[2] - iv[1] = min_frames.pitch

\* The samples of series ws whose frame lies in [iv.start, iv.end].
SamplesIn(ws, iv) == {i \in 1..Len(ws) : iv[1] <= ws[i][1] /\ ws[i][1] <= iv[2]}

\* C2: an emitted interval is exactly a maximal above-threshold run, every
\* sample with frame in [start_frame, end_frame] being above the threshold;
\* the scenario series with minimum duration 2 yields exactly (2, 4, 3, 1.0).
C2_MaximalRun ==
    /\ \A iv \in SeqToSet(swings) : \A i \in SamplesIn(speeds, iv) :
          AboveP70(speeds[i][2], NonzeroSpeeds(speeds))
    /\ \A iv \in SeqToSet(pitches) : \A i \in SamplesIn(speeds, iv) :
          AboveAdaptive(speeds[i][2], SpeedsOf(speeds), speed_threshold)
    /\ (speeds = ScenarioSeries /\ min_frames.swing = 2)
          => swings = << <<2, 4, 3, 400>> >>
    /\ (speeds = ScenarioSeries /\ min_frames.pitch = 2 /\ speed_threshold = 200)
          => pitches = << <<2, 4, 3, 400>> >>

\* What the code returns for the scenario series with minimum duration 2.
C2_ScenarioActual ==
    (speeds = ScenarioSeries /\ min_frames.swing = 2 /\ min_frames.pitch = 2
        /\ speed_threshold = 200)
    => (swings = << <<3, 5, 3, 400>> >> /\ pitches = <<>>)

(***************************************************************************)
(* Claims about the phase segmenters.                                      *)
(***************************************************************************)
BattingVocabulary == <<"stance", "load", "stride", "swing", "follow_through">>
PitchingVocabulary ==
    <<"windup", "leg_lift", "stride", "arm_cocking", "acceleration", "follow_through">>

PositionIn(vocabulary, key) ==
    CHOOSE i \in 1..Len(vocabulary) : vocabulary[i] = key

\* No frame lies in two phases of the list.
NonOverlapping(phs) ==
    \A i, k \in 1..Len(phs) :
        i < k => (phs[i][2]..phs[i][3]) \cap (phs[k][2]..phs[k][3]) = {}

\* The list is ordered by strictly ascending start_frame.
StrictlyAscending(phs) ==
    \A i \in 1..(Len(phs) - 1) : phs[i][2] < phs[i + 1][2]

\* The phase keys appear in the order of the vocabulary.
InVocabularyOrder(phs, vocabulary) ==
    \A i \in 1..(Len(phs) - 1) :
        PositionIn(vocabulary, phs[i][1]) < PositionIn(vocabulary, phs[i + 1][1])

\* C3: for every swing interval produced by detect_swings and every landmark
\* history, the phases returned by detect_batting_phases are mutually
\* non-overlapping and ordered by strictly ascending start_frame, in the
\* vocabulary order stance, load, stride, swing, follow_through.
C3_BattingPhasesDisjointOrdered ==
    pc = "bat_phases" =>
        /\ NonOverlapping(phases)
        /\ StrictlyAscending(phases)
        /\ InVocabularyOrder(phases, BattingVocabulary)

\* C4: for every pitch interval produced by detect_pitch_motion (its release
\* frame may equal its start frame) and every landmark history, the phases
\* returned by detect_pitching_phases are mutually non-overlapping and ordered
\* by strictly ascending start_frame, in the vocabulary order windup, leg_lift,
\* stride, arm_cocking, acceleration, follow_through.
C4_PitchingPhasesDisjointOrdered ==
    pc = "pit_phases" =>
        /\ NonOverlapping(phases)
        /\ StrictlyAscending(phases)
        /\ InVocabularyOrder(phases, PitchingVocabulary)

\* The analysis window [max(0, start - pre_margin), end + post_margin] of the
\* segmented interval.
AnalysisWindow ==
    IF pc = "bat_phases"
    THEN Max(0, interval[1] - BatPreMargin(fps))..(interval[2] + BatPostMargin(fps))
    ELSE Max(0, interval[1] - PitPreMargin(fps))..(interval[2] + PitPostMargin(fps))

\* C5: for both segmenters the emitted phases cover the analysis window: every
\* frame of the window lies in some emitted phase, every emitted phase has
\* start_frame <= end_frame, and no emitted phase contains a frame outside the
\* window.
C5_PhasesCoverWindow ==
    pc \in {"bat_phases", "pit_phases"} =>
        /\ \A f \in AnalysisWindow :
              \E i \in 1..Len(phases) : phases[i][2] <= f /\ f <= phases[i][3]
        /\ \A i \in 1..Len(phases) :
              /\ phases[i][2] <= phases[i][3]
              /\ (phases[i][2]..phases[i][3]) \subseteq AnalysisWindow

(***************************************************************************)
(* Claims about the evaluators.                                            *)
(***************************************************************************)
Evaluated == pc \in {"bat_evaluated", "pit_evaluated"}

\* C6: in every result of evaluate_batting and evaluate_pitching each
\* criterion has 0 <= score <= max, the criterion maxima sum to 100 (6 batting
\* criteria, 5 pitching criteria), and total_score equals the sum of the
\* criterion scores and so lies in [0, 100].
C6_ScoreInvariant ==
    Evaluated =>
        /\ Len(details) = IF pc = "bat_evaluated" THEN 6 ELSE 5
        /\ \A i \in 1..Len(details) :
              0 <= details[i].score /\ details[i].score <= details[i].max
        /\ SumSeq([i \in 1..Len(details) |-> details[i].max]) = 100
        /\ evaluation.total_score = SumSeq([i \in 1..Len(details) |-> details[i].score])
        /\ 0 <= evaluation.total_score /\ evaluation.total_score <= 100

\* A batting evaluation in which the step-width criterion scores its maximum
\* while another criterion scores 0.
C6_Witness ==
    /\ pc = "bat_evaluated"
    /\ details[3].score = details[3].max
    /\ \E i \in 1..Len(details) : details[i].score = 0
    /\ evaluation.total_score > 0

\* No frame of the history carries a usable pose: each is missing or has every
\* joint invisible.
NoUsablePose == \A f \in DOMAIN history : history[f] \in {"none", "hidden"}

\* C7: when the landmark history has no usable pose (missing frames or all
\* relevant joints invisible) every criterion of evaluate_batting and of
\* evaluate_pitching scores 0, so total_score is 0 and the grade is D.
C7_NoPoseScoresZero ==
    (Evaluated /\ NoUsablePose) =>
        /\ \A i \in 1..Len(details) : details[i].score = 0
        /\ evaluation.total_score = 0
        /\ evaluation.grade = "D"

\* The grade the cutoffs 85, 70, 55, 40 assign to a total.
CutoffGrade(total) ==
    CHOOSE g \in {"S", "A", "B", "C", "D"} :
        /\ g = "S" <=> total >= 85
        /\ g = "A" <=> (70 <= total /\ total < 85)
        /\ g = "B" <=> (55 <= total /\ total < 70)
        /\ g = "C" <=> (40 <= total /\ total < 55)
        /\ g = "D" <=> total < 40

\* C8: in both evaluators the grade is a function of total_score alone with
\* cutoffs >= 85 -> S, >= 70 -> A, >= 55 -> B, >= 40 -> C, else D; a total of
\* 87 is graded S and a total of 69 is graded B; batting and pitching use the
\* same cutoffs.
C8_GradeCutoffs ==
    Evaluated =>
        /\ evaluation.grade = CutoffGrade(evaluation.total_score)
        /\ evaluation.total_score = 87 => evaluation.grade = "S"
        /\ evaluation.total_score = 69 => evaluation.grade = "B"

\* A pitching evaluation with total 69, one point below the A cutoff.
C8_Witness ==
    pc = "pit_evaluated" /\ evaluation.total_score = 69 /\ evaluation.grade = "B"

\* C9: evaluate_pitching sets injury_risk to "high" iff the elbow or the
\* shoulder sub-check reports risk_level "danger", to "medium" iff neither
\* reports danger and at least one reports "warning", and to "low" otherwise.
C9_InjuryRisk ==
    pc = "pit_evaluated" =>
        LET danger == obs.elbow = "danger" \/ obs.shoulder = "danger"
            warning == obs.elbow = "warning" \/ obs.shoulder = "warning"
        IN /\ evaluation.injury_risk = "high" <=> danger
           /\ evaluation.injury_risk = "medium" <=> (~danger /\ warning)
           /\ evaluation.injury_risk = "low" <=> (~danger /\ ~warning)

\* A pitching evaluation whose elbow sub-check reports danger while the
\* shoulder sub-check reports safe.
C9_Witness ==
    /\ pc = "pit_evaluated"
    /\ obs.elbow = "danger" /\ obs.shoulder = "safe"
    /\ evaluation.injury_risk = "high"

(***************************************************************************)
(* Claims about the frame alignment.                                       *)
(***************************************************************************)
\* C10: for all frame counts total_a, total_b >= 0 and all anchors sync_a,
\* sync_b (a manual offset may make sync_b negative) the mapping returned by
\* align_frames has length <= min(total_a, total_b), both components increase
\* by exactly 1 per index, and every pair satisfies 0 <= frame_a < total_a and
\* 0 <= frame_b < total_b.
C10_AlignedMapping ==
    pc = "aligned" =>
        /\ Len(mapping) <= Min(sync.total_a, sync.total_b)
        /\ \A i \in 1..(Len(mapping) - 1) :
              /\ mapping[i + 1][1] = mapping[i][1] + 1
              /\ mapping[i + 1][2] = mapping[i][2] + 1
        /\ \A i \in 1..Len(mapping) :
              /\ 0 <= mapping[i][1] /\ mapping[i][1] < sync.total_a
              /\ 0 <= mapping[i][2] /\ mapping[i][2] < sync.total_b

\* A negative anchor for video B, and a mapping of several pairs that starts
\* video A later than frame 0.
C10_Witness ==
    /\ pc = "aligned"
    /\ sync.sync_b < 0
    /\ Len(mapping) >= 2
    /\ mapping[1][1] > 0

\* C11: every pair (frame_a, frame_b) of the mapping align_frames returns has
\* frame_a - frame_b = sync_a - sync_b, and whenever 0 <= sync_a < total_a and
\* 0 <= sync_b < total_b the pair (sync_a, sync_b) is in the mapping; sync_b
\* is video B's anchor with the manual offset (positive or negative) added.
C11_AnchorsAligned ==
    pc = "aligned" =>
        /\ \A i \in 1..Len(mapping) :
              mapping[i][1] - mapping[i][2] = sync.sync_a - sync.sync_b
        /\ (/\ 0 <= sync.sync_a /\ sync.sync_a < sync.total_a
            /\ 0 <= sync.sync_b /\ sync.sync_b < sync.total_b)
           => \E i \in 1..Len(mapping) : mapping[i] = <<sync.sync_a, sync.sync_b>>

\* A negative manual offset leaves video B's anchor inside the video and
\* before video A's; the anchors meet at a later index than the first.
C11_Witness ==
    /\ pc = "aligned"
    /\ sync.manual_offset < 0
    /\ 0 < sync.sync_b /\ sync.sync_b < sync.sync_a
    /\ \E i \in 2..Len(mapping) : mapping[i] = <<sync.sync_a, sync.sync_b>>

(***************************************************************************)
(* Claims about the synchronisation.                                       *)
(***************************************************************************)
Synced == pc \in {"synced", "resynced"}
EitherEmpty == sync.intervals_a = <<>> \/ sync.intervals_b = <<>>

NeededJoints(kind, arm) ==
    IF kind = "rotation" THEN {11, 12}
    ELSE IF kind = "cog" THEN {23, 24}
    ELSE IF kind = "release" THEN {ArmJoints(arm).wrist, ArmJoints(arm).shoulder,
                                  ArmJoints(arm).elbow, 0}
    ELSE {ArmJoints(arm).shoulder, ArmJoints(arm).wrist}

\* C13: a joint is visible iff its confidence strictly exceeds 0.5, and no
\* quantity is computed from an invisible joint: the frame angles hold a name
\* iff the pose exists and the three joints of its triple are all visible, and
\* the body rotation, the centre of gravity, the release point and the arm
\* slot are defined only if every joint they need is visible.
C13_VisibilityStrict ==
    pc = "measured" =>
        LET lm == GeoGet(history, interval[3])
            angle_defs == IF obs.kind = "batting" THEN BATTING_ANGLES
                          ELSE PITCHING_ANGLES
        IN IF obs.kind \in {"batting", "pitching"}
           THEN \A n \in DOMAIN angle_defs :
                   n \in DOMAIN obs.result <=>
                       AllSeen(lm, {angle_defs[n][1], angle_defs[n][2],
                                    angle_defs[n][3]})
           ELSE obs.result.defined => AllSeen(lm, NeededJoints(obs.kind, obs.arm))

(***************************************************************************)
(* Claims about the speed series.                                          *)
(***************************************************************************)
\* The tracked wrist of frame f is invisible: its confidence does not exceed
\* the threshold of the calculator.
WristInvisible(h, f, threshold) == LM(h, f).j[16][3] <= threshold

FrameAngles(angles, frame) ==
    IF frame \in DOMAIN angles THEN angles[frame] ELSE [n \in {} |-> 0]

\* C15: compare_angles returns exactly one entry per angle name present in
\* either frame's angles; with both values defined diff = value_b - value_a
\* and the status is "same" for |diff| < 5, "minor" for 5 <= |diff| < 15 and
\* "major" for |diff| >= 15; with exactly one value defined diff is undefined
\* and the status is "missing"; an absent frame has no angles.
C15_CompareAngles ==
    pc = "compared" =>
        LET a == FrameAngles(sync.angles_a, interval[1])
            b == FrameAngles(sync.angles_b, interval[2])
            names == DOMAIN a \cup DOMAIN b
        IN /\ Len(details) = Cardinality(names)
           /\ {details[i].name : i \in 1..Len(details)} = names
           /\ \A i \in 1..Len(details) :
                 LET e == details[i]
                     n == e.name
                 IN IF n \in DOMAIN a /\ n \in DOMAIN b
                    THEN /\ e.diff.defined
                         /\ e.diff.value = b[n] - a[n]
                         /\ (e.status = "same") = (Abs(b[n] - a[n]) < 5)
                         /\ (e.status = "minor") =
                               (5 <= Abs(b[n] - a[n]) /\ Abs(b[n] - a[n]) < 15)
                         /\ (e.status = "major") = (Abs(b[n] - a[n]) >= 15)
                    ELSE ~e.diff.defined /\ e.status = "missing"

\* A comparison with one name on both sides at a difference of exactly 5 and
\* one name on one side only.
C15_Witness ==
    /\ pc = "compared"
    /\ Len(details) = 2
    /\ details[1].status = "minor" /\ details[1].diff = Some(-5)
    /\ details[2].status = "missing" /\ details[2].value_b.defined

(***************************************************************************)
(* Claims about empty outcomes.                                            *)
(***************************************************************************)
\* No sample of the series exceeds the threshold detect_swings derives.
NoSwingSample ==
    \A i \in 1..Len(speeds) : ~AboveP70(speeds[i][2], NonzeroSpeeds(speeds))

\* No sample of the series exceeds the threshold of the detect_pitch_motion call.
NoPitchSample ==
    \A i \in 1..Len(speeds) :
        ~AboveAdaptive(speeds[i][2], SpeedsOf(speeds), speed_threshold)

\* C17: detect_swings returns the empty list for an empty series, for a
\* series whose samples are all <= 0.001 and for a series with no sample above
\* its threshold; detect_pitch_motion returns it for an empty series and for a
\* series with no sample above its threshold; find_sync_point_batting and
\* find_sync_point_pitching return (0, 0) when the list of either side is
\* empty, whatever the other side's list and the landmark asked for.
C17_EmptyOutcomes ==
    /\ (min_frames.swing > 0
          /\ (speeds = <<>> \/ NonzeroSpeeds(speeds) = <<>> \/ NoSwingSample))
        => swings = <<>>
    /\ (min_frames.pitch > 0 /\ (speeds = <<>> \/ NoPitchSample))
        => pitches = <<>>
    /\ \A sync_mode \in SyncModes("batting") \cup SyncModes("pitching") :
          /\ find_sync_point_batting(swings, <<>>, sync_mode) = <<0, 0>>
          /\ find_sync_point_batting(<<>>, swings, sync_mode) = <<0, 0>>
          /\ find_sync_point_pitching(pitches, <<>>, sync_mode) = <<0, 0>>
          /\ find_sync_point_pitching(<<>>, pitches, sync_mode) = <<0, 0>>

\* Both detectors have run on a series with non-zero samples none of which
\* is above the swing threshold: no swing, but a pitch, so the synchroniser
\* pairs a non-empty list with an empty one.
C17_Witness ==
    /\ min_frames.swing > 0 /\ min_frames.pitch > 0
    /\ NonzeroSpeeds(speeds) # <<>> /\ NoSwingSample
    /\ swings = <<>> /\ pitches # <<>>

(***************************************************************************)
(* phase_detector.get_phase_at_frame and                                   *)
(* pitching_detector.get_pitching_phase_at_frame.  The result is the key   *)
(* (the info returned with it is the vocabulary's entry for the key);      *)
(* (None, None) is Undefined.                                              *)
(***************************************************************************)
\* if start < frame_idx <= end: the first frame of a phase is not in it
RECURSIVE PhaseScanOpenStart(_, _, _)
PhaseScanOpenStart(phase_list, i, frame_idx) ==
    IF i > Len(phase_list) THEN Undefined
    ELSE IF phase_list[i][2] < frame_idx /\ frame_idx <= phase_list[i][3]
    THEN Some(phase_list[i][1])
    ELSE PhaseScanOpenStart(phase_list, i + 1, frame_idx)

\* for key, start, end in phases: if start <= frame_idx <= end: return key, ...
RECURSIVE PhaseScan(_, _, _)
PhaseScan(phase_list, i, frame_idx) ==
    IF i > Len(phase_list) THEN Undefined
    ELSE IF phase_list[i][2] <= frame_idx /\ frame_idx <= phase_list[i][3]
    THEN Some(phase_list[i][1])
    ELSE PhaseScan(phase_list, i + 1, frame_idx)

get_phase_at_frame(phase_list, frame_idx) == PhaseScan(phase_list, 1, frame_idx)

get_pitching_phase_at_frame(phase_list, frame_idx) == PhaseScan(phase_list, 1, frame_idx)

(***************************************************************************)
(* Lookup specification: a phase list of up to two phases, keys in         *)
(* vocabulary order, ranges anywhere in the video (the segmenters return   *)
(* overlapping and nested ranges), is searched for a frame.                *)
(***************************************************************************)
MaxLookupFrame == 3

LookupRanges == {r \in (0..MaxLookupFrame) \X (0..MaxLookupFrame) : r[1] <= r[2]}

PhaseLists(vocabulary) ==
    {<<>>}
    \cup {<< <<vocabulary[i], r[1], r[2]>> >> : i \in 1..Len(vocabulary), r \in LookupRanges}
    \cup {<< <<vocabulary[p[1]], r[1], r[2]>>, <<vocabulary[p[2]], q[1], q[2]>> >> :
            p \in {pp \in (1..Len(vocabulary)) \X (1..Len(vocabulary)) : pp[1] < pp[2]},
            r \in LookupRanges, q \in LookupRanges}

InitLookup ==
    /\ \/ pc = "bat_lookup" /\ phases \in PhaseLists(BattingVocabulary)
       \/ pc = "pit_lookup" /\ phases \in PhaseLists(PitchingVocabulary)
    /\ fps = 0 /\ history = <<>> /\ interval = <<>>
    /\ speeds = <<>> /\ min_frames = NotCalled /\ speed_threshold = 0
    /\ swings = <<>> /\ pitches = <<>>
    /\ obs = <<>> /\ details = <<>> /\ evaluation = <<>>
    /\ sync = <<>> /\ mapping = <<>>

\* get_phase_at_frame(phases, frame_idx)
GetPhaseAtFrame ==
    /\ pc = "bat_lookup"
    /\ \E frame_idx \in (-1)..(MaxLookupFrame + 1) :
          obs' = [frame_idx |-> frame_idx,
                  phase |-> get_phase_at_frame(phases, frame_idx)]
    /\ pc' = "bat_looked"
    /\ UNCHANGED <<fps, history, speeds, min_frames, speed_threshold, swings,
                   pitches, interval, phases, details, evaluation, sync, mapping>>

\* phase_key, phase_info = get_pitching_phase_at_frame(pitching_phases, frame_idx)
GetPitchingPhaseAtFrame ==
    /\ pc = "pit_lookup"
    /\ \E frame_idx \in (-1)..(MaxLookupFrame + 1) :
          obs' = [frame_idx |-> frame_idx,
                  phase |-> get_pitching_phase_at_frame(phases, frame_idx)]
    /\ pc' = "pit_looked"
    /\ UNCHANGED <<fps, history, speeds, min_frames, speed_threshold, swings,
                   pitches, interval, phases, details, evaluation, sync, mapping>>

NextLookup == GetPhaseAtFrame \/ GetPitchingPhaseAtFrame

SpecLookup == InitLookup /\ [][NextLookup]_vars

(***************************************************************************)
(* Claims about the phase lookup.                                          *)
(***************************************************************************)
\* The positions of the phases whose inclusive range contains the frame.
Containing(phase_list, frame_idx) ==
    {i \in 1..Len(phase_list) :
        phase_list[i][2] <= frame_idx /\ frame_idx <= phase_list[i][3]}

Looked == pc \in {"bat_looked", "pit_looked"}

\* The lookup returned the key of the first containing phase, and nothing
\* iff no phase contains the frame.
FirstContaining ==
    Looked =>
        LET hits == Containing(phases, obs.frame_idx)
        IN /\ ~obs.phase.defined <=> hits = {}
           /\ hits # {} =>
                 \E i \in hits : /\ \A k \in hits : i <= k
                                 /\ obs.phase = Some(phases[i][1])

\* C18: get_phase_at_frame and get_pitching_phase_at_frame return the key of
\* the first phase in list order whose inclusive range [start, end] contains
\* the frame, and (None, None) iff the frame lies outside every phase; the
\* lookup leaves the phase list as it was.
C18_PhaseLookup == [](FirstContaining) /\ [][phases' = phases]_vars

\* A lookup of a frame that two overlapping phases contain, at the last frame
\* of the first of them.
C18_Witness ==
    /\ Looked
    /\ Len(phases) = 2
    /\ Containing(phases, obs.frame_idx) = {1, 2}
    /\ phases[1][3] = obs.frame_idx
    /\ obs.phase = Some(phases[1][1])

(***************************************************************************)
(* Claims about the closing of intervals and the peak.                     *)
(***************************************************************************)
\* The series followed by one sample of speed 0.0 at the next frame.
Extended(ws) == Append(ws, <<ws[Len(ws)][1] + 1, 0>>)

\* Sample i of ws is above the threshold of the swing (pitch) detector.
SwingAbove(ws, i) == AboveP70(ws[i][2], NonzeroSpeeds(ws))
PitchAbove(ws, i, thr) == AboveAdaptive(ws[i][2], SpeedsOf(ws), thr)

\* The frame at which the run of above-threshold samples ending with the
\* last sample of the series begins; above is the set of the samples above
\* the threshold, the last one among them.
TailRunStart(ws, above) ==
    ws[CHOOSE i \in above : /\ \A k \in i..Len(ws) : k \in above
                            /\ (i - 1) \notin above][1]

Starts(ivs) == {ivs[i][1] : i \in 1..Len(ivs)}

\* C19: a run of above-threshold samples that ends with the series is emitted
\* iff the same run followed by one below-threshold sample is emitted, for
\* detect_swings and for detect_pitch_motion.
C19_TailClosure ==
    /\ (min_frames.swing > 0 /\ speeds # <<>>
          /\ NonzeroSpeeds(speeds) # <<>> /\ SwingAbove(speeds, Len(speeds)))
        => LET above == {i \in 1..Len(speeds) : SwingAbove(speeds, i)}
               start == TailRunStart(speeds, above)
           IN (start \in Starts(swings)) <=>
                 (start \in Starts(detect_swings(Extended(speeds), min_frames.swing)))
    /\ (min_frames.pitch > 0 /\ speeds # <<>>
          /\ PitchAbove(speeds, Len(speeds), speed_threshold)
          /\ \A i \in 1..Len(speeds) :
                PitchAbove(Extended(speeds), i, speed_threshold)
                    <=> PitchAbove(speeds, i, speed_threshold))
        => LET above == {i \in 1..Len(speeds) : PitchAbove(speeds, i, speed_threshold)}
               start == TailRunStart(speeds, above)
           IN (start \in Starts(pitches)) <=>
                 (start \in Starts(detect_pitch_motion(Extended(speeds), speed_threshold,
                                                       min_frames.pitch)))

\* The samples of the run of interval iv: those with a frame in
\* [start_frame, end_frame] that are in above.
RunSamples(ws, iv, above) == {i \in SamplesIn(ws, iv) : i \in above}

\* The peak of iv is the maximum over the run's samples, at the earliest frame.
PeakOfRun(ws, iv, above) ==
    LET run == RunSamples(ws, iv, above)
    IN \E i \in run :
          /\ ws[i][2] = iv[4] /\ ws[i][1] = iv[3]
          /\ \A k \in run : ws[k][2] <= iv[4]
          /\ \A k \in run : ws[k][2] = iv[4] => ws[i][1] <= ws[k][1]

\* C20: for every emitted interval peak_speed is the maximum speed over the
\* above-threshold samples of its run and peak_frame the earliest frame
\* attaining it, so the peak of an earlier run never appears in it.
C20_PeakTracking ==
    /\ \A iv \in SeqToSet(swings) :
          PeakOfRun(speeds, iv, {i \in 1..Len(speeds) : SwingAbove(speeds, i)})
    /\ \A iv \in SeqToSet(pitches) :
          PeakOfRun(speeds, iv,
                    {i \in 1..Len(speeds) : PitchAbove(speeds, i, speed_threshold)})

\* An emitted swing that follows a discarded run of higher speed.
C20_Witness ==
    /\ min_frames.swing > 0
    /\ \E iv \in SeqToSet(swings) :
          /\ \E i \in 1..Len(speeds) :
                /\ speeds[i][1] < iv[1] /\ speeds[i][2] > iv[4]
                /\ SwingAbove(speeds, i)

(***************************************************************************)
(* Claims about the threshold of detect_pitch_motion.                      *)
(***************************************************************************)
\* C21: the threshold of detect_pitch_motion is never below speed_threshold:
\* every emitted pitch has peak_speed > speed_threshold, and a series with
\* no sample above speed_threshold yields no pitch, whatever its mean and
\* standard deviation.
C21_ThresholdFloor ==
    min_frames.pitch > 0 =>
        /\ \A iv \in SeqToSet(pitches) : iv[4] > speed_threshold
        /\ (\A i \in 1..Len(speeds) : speeds[i][2] <= speed_threshold)
              => pitches = <<>>

\* detect_pitch_motion has run on a series none of whose samples is above
\* speed_threshold although two consecutive samples, followed by a third
\* sample, exceed mean + 1.2 std: only the floor keeps the run out.
C21_Witness ==
    /\ min_frames.pitch = 2
    /\ \A i \in 1..Len(speeds) : speeds[i][2] <= speed_threshold
    /\ \E i \in 1..(Len(speeds) - 2) :
          /\ AboveMeanStd(speeds[i][2], SpeedsOf(speeds))
          /\ AboveMeanStd(speeds[i + 1][2], SpeedsOf(speeds))
          /\ speeds[i + 2][1] - speeds[i][1] >= 2
    /\ pitches = <<>>

(***************************************************************************)
(* Claims about the visibility threshold of the speed calculators.         *)
(***************************************************************************)
\* The displacement-based speed of the pair (f - 1, f) of right-wrist positions.
DisplacementSpeed(h, f, fpsv) ==
    LET d == Hypot(LM(h, f).j[16][1] - LM(h, f - 1).j[16][1],
                   LM(h, f).j[16][2] - LM(h, f - 1).j[16][2])
    IN IF fpsv > 0 THEN d * fpsv ELSE d

\* C22: calc_wrist_speed and calc_throwing_arm_speed both use the 0.3
\* visibility threshold: a pair of frames with a pose whose tracked wrist has
\* confidence >= 0.3 in both yields the displacement-based speed, and the
\* forced 0.0 is given only when a pose is missing or a confidence is below 0.3.
C22_SpeedThreshold ==
    pc = "speeds" =>
        \A i \in 1..Len(speeds) :
            LET prev_lm == LM(history, i - 1)
                curr_lm == LM(history, i)
            IN (/\ prev_lm.present /\ curr_lm.present
                /\ prev_lm.j[16][3] >= 30 /\ curr_lm.j[16][3] >= 30)
                  => speeds[i][2] = DisplacementSpeed(history, i, fps)

(***************************************************************************)
(* Claims about the stride boundary.                                       *)
(***************************************************************************)
\* The frames from the start of the load up to the start of the swing
\* interval at which an ankle lifts.
FootLiftFrames ==
    LET b == BattingBoundaries(history, speeds, interval, fps)
    IN {f \in b.load_start..(interval[1] - 1) : AnkleLifted(history, f)}

\* C23: whenever an ankle, visible at both ends, moves upward by more than
\* 0.01 at a frame before the swing start, the stride phase begins at the
\* first such frame rather than at the fixed fallback.
C23_StrideAtFootLift ==
    (pc = "bat_phases" /\ FootLiftFrames # {}) =>
        \E i \in 1..Len(phases) :
            /\ phases[i][1] = "stride"
            /\ phases[i][2] \in FootLiftFrames
            /\ \A f \in FootLiftFrames : phases[i][2] <= f

(***************************************************************************)
(* Claims about the phases around the release.                             *)
(***************************************************************************)
\* C24: in the list of detect_pitching_phases the acceleration phase is
\* exactly [cocking_end + 1, release] and follow_through exactly
\* [release + 1, analysis_end]; arm_cocking ends strictly before the release
\* frame, the release frame lies in no phase other than acceleration, and no
\* phase other than follow_through contains a frame after the release.
C24_PhasesAroundRelease ==
    pc = "pit_phases" =>
        LET b == PitchingBoundaries(history, interval, fps)
            release == interval[3]
        IN \A i \in 1..Len(phases) :
              LET key == phases[i][1]
                  first == phases[i][2]
                  last == phases[i][3]
              IN /\ key = "acceleration" => first = b.accel_start /\ last = release
                 /\ key = "follow_through" =>
                       first = release + 1 /\ last = b.analysis_end
                 /\ key = "arm_cocking" => last < release
                 /\ (first <= release /\ release <= last) => key = "acceleration"
                 /\ last > release => key = "follow_through"

(***************************************************************************)
(* Claims about the release point.                                         *)
(***************************************************************************)
\* C25: detect_release_point returns nothing or a complete record: nothing
\* when the release frame has no pose or the wrist, elbow, shoulder, nose or
\* ankle is invisible; in a record only shoulder_angle (hip invisible) and
\* height_ratio (body height <= 0.01) may be undefined.
C25_ReleaseAllOrNothing ==
    (pc = "measured" /\ obs.kind = "release") =>
        LET lm == GeoGet(history, interval[3])
            j == ArmJoints(obs.arm)
            needed == {j.wrist, j.elbow, j.shoulder, 0, j.ankle}
        IN /\ obs.result.defined <=> AllSeen(lm, needed)
           /\ obs.result.defined =>
                 /\ ~obs.result.shoulder_angle.defined => ~Seen(lm, j.hip)
                 /\ ~obs.result.height_ratio.defined =>
                       Abs(lm.y[j.ankle] - lm.y[0]) <= MinBodyHeight

(***************************************************************************)
(* form_checker.calc_head_stability and detect_body_opening_timing.  A     *)
(* standard deviation is kept through the comparison the code makes with   *)
(* it; a rotation is a whole number of degrees.                            *)
(***************************************************************************)
\* nose_xs and nose_ys as one list of (x, y), over range(start, end + 1).
RECURSIVE NoseFrom(_, _, _)
NoseFrom(h, f, end) ==
    IF f > end THEN <<>>
    ELSE (IF AllSeen(BatGet(h, f), {0})
          THEN << <<BatGet(h, f).x[0], BatGet(h, f).y[0]>> >> ELSE <<>>)
         \o NoseFrom(h, f + 1, end)

\* float(np.std(vals)) < limit, for a non-empty list
StdBelow(vals, limit) ==
    Len(vals) * SumSq(vals) - SumSeq(vals) * SumSeq(vals)
        < limit * limit * Len(vals) * Len(vals)

\* len(nose_xs) < 2
TooFewNoseTwo(nose_positions) == Len(nose_positions) < 2

\* len(nose_xs) < 3
TooFewNose(nose_positions) == Len(nose_positions) < 3

calc_head_stability(h, swing) ==
    LET nose_positions == NoseFrom(h, swing[1], swing[2])
        nose_xs == [i \in 1..Len(nose_positions) |-> nose_positions[i][1]]
        nose_ys == [i \in 1..Len(nose_positions) |-> nose_positions[i][2]]
    IN IF TooFewNose(nose_positions) THEN Undefined
       ELSE [defined |-> TRUE,
             stable |-> StdBelow(nose_xs, 8) /\ StdBelow(nose_ys, 8),
             nose_positions |-> nose_positions]

\* rot_data: (f, rotation_history[f]) for f in range(start, peak + 1) inside
\* the list and not None; frame f is element f + 1 of the sequence.
RECURSIVE RotData(_, _, _)
RotData(rotation_history, f, peak) ==
    IF f > peak THEN <<>>
    ELSE (IF f < Len(rotation_history) /\ rotation_history[f + 1].defined
          THEN << <<f, rotation_history[f + 1].value>> >> ELSE <<>>)
         \o RotData(rotation_history, f + 1, peak)

\* judgement: "late", "proper" and "early" stand for the three labels.
OpeningJudgement(frames_before) ==
    IF frames_before <= 2 THEN "late"
    ELSE IF frames_before <= 6 THEN "proper"
    ELSE "early"

detect_body_opening_timing(rotation_history, swing) ==
    LET start == swing[1]
        peak == swing[3]
        rot_data == RotData(rotation_history, start, peak)
    IN IF rotation_history = <<>> \/ peak >= Len(rotation_history) THEN Undefined
       ELSE IF Len(rot_data) < 3 THEN Undefined
       ELSE LET jumps == {i \in 2..Len(rot_data) :
                             Abs(rot_data[i][2] - rot_data[i - 1][2]) > 2}
                opening_frame ==
                    IF jumps # {} THEN rot_data[SetMin(jumps)][1]
                    ELSE rot_data[(Len(rot_data) \div 2) + 1][1]
                frames_before == peak - opening_frame
            IN [defined |-> TRUE, frames_before |-> frames_before,
                judgement |-> OpeningJudgement(frames_before)]

\* evaluate_batting: "status" of the weight-shift and head-stability entries
WeightStatus(score) ==
    IF score >= 15 THEN "good" ELSE IF score >= 10 THEN "warning" ELSE "bad"
HeadStatus(score) ==
    IF score >= 8 THEN "good" ELSE IF score >= 5 THEN "warning" ELSE "bad"

(***************************************************************************)
(* Form specification: the judgments of one swing that need a minimum      *)
(* number of samples.  The landmark history gives a pose to every frame of *)
(* the swing; the rotation history is an argument of its own.              *)
(***************************************************************************)
FormSwings == {<<1, 4, 1, Scale>>, <<1, 4, 4, Scale>>, <<1, 6, 1, Scale>>}
FormPoseNames == {"none", "hidden", "A", "C"}
RotVals == {Undefined, Some(0), Some(3)}

\* rotation_history lists: empty, or one entry per frame up to the frame
\* before the peak or up to the peak, unmeasured or level before the swing.
RotationHistories(swing) ==
    {<<>>} \cup
    {rh \in UNION {[1..n -> RotVals] : n \in {swing[3], swing[3] + 1}} :
        \A i \in 1..Len(rh) : i - 1 < swing[1] => rh[i] = Some(0)}

InitForm ==
    /\ pc = "bat_eval"
    /\ interval \in FormSwings
    /\ history \in [BatEvalFrames(interval) -> FormPoseNames]
    /\ fps = 30
    /\ speeds = <<>> /\ min_frames = NotCalled /\ speed_threshold = 0
    /\ swings = <<>> /\ pitches = <<>> /\ phases = <<>>
    /\ obs = <<>> /\ details = <<>> /\ evaluation = <<>>
    /\ sync = <<>> /\ mapping = <<>>

\* evaluate_batting(all_lm, best): weight_data takes its default, None
EvaluateBattingDefault ==
    /\ pc = "bat_eval"
    /\ LET ev == evaluate_batting(history, interval, Undefined)
       IN /\ details' = ev.details
          /\ evaluation' = [total_score |-> ev.total_score, grade |-> ev.grade,
                            injury_risk |-> ev.injury_risk]
    /\ pc' = "bat_evaluated_default"
    /\ UNCHANGED <<fps, history, speeds, min_frames, speed_threshold, swings,
                   pitches, interval, phases, obs, sync, mapping>>

\* head_stability = calc_head_stability(all_landmarks, best_swing)
CalcHeadStability ==
    /\ pc = "bat_eval"
    /\ obs' = calc_head_stability(history, interval)
    /\ pc' = "head_stability"
    /\ UNCHANGED <<fps, history, speeds, min_frames, speed_threshold, swings,
                   pitches, interval, phases, details, evaluation, sync, mapping>>

\* body_opening = detect_body_opening_timing(rotation_history, best_swing)
DetectBodyOpeningTiming ==
    /\ pc = "bat_eval"
    /\ \E rotation_history \in RotationHistories(interval) :
          obs' = [rotation_history |-> rotation_history,
                  result |-> detect_body_opening_timing(rotation_history, interval)]
    /\ pc' = "body_opening"
    /\ UNCHANGED <<fps, history, speeds, min_frames, speed_threshold, swings,
                   pitches, interval, phases, details, evaluation, sync, mapping>>

NextForm ==
    \/ WeightShift \/ EvaluateBatting \/ EvaluateBattingDefault
    \/ CalcHeadStability \/ DetectBodyOpeningTiming

SpecForm == InitForm /\ [][NextForm]_vars

\* The frames of the swing, up to end, whose nose is visible.
VisibleNose(last) ==
    {f \in interval[1]..last : AllSeen(BatGet(history, f), {0})}

\* C26: a judgment that needs three samples is undefined on fewer:
\* calc_head_stability returns None exactly when fewer than 3 frames of
\* [start, end] have a visible nose; detect_body_opening_timing returns None
\* exactly when the peak is beyond the rotation history or fewer than 3
\* frames of [start, peak] have a rotation; evaluate_batting scores the
\* weight shift 0 (status bad) exactly when weight_data is None or has fewer
\* than 3 entries, and the head stability 0 (status bad) exactly when fewer
\* than 3 frames of its window have a visible nose.
C26_TooFewSamples ==
    /\ pc = "head_stability" =>
          (~obs.defined <=> Cardinality(VisibleNose(interval[2])) < 3)
    /\ pc = "body_opening" =>
          LET rh == obs.rotation_history
              measured == {f \in interval[1]..interval[3] :
                              f < Len(rh) /\ rh[f + 1] # Undefined}
          IN ~obs.result.defined <=>
                (interval[3] >= Len(rh) \/ Cardinality(measured) < 3)
    /\ pc \in {"bat_evaluated", "bat_evaluated_default"} =>
          LET window == Min(interval[2] + 1, interval[3] + 5) - 1
              few_weight == pc = "bat_evaluated_default" \/ Len(obs) < 3
              few_nose == Cardinality(VisibleNose(window)) < 3
          IN /\ few_weight <=> details[4].score = 0
             /\ few_weight => WeightStatus(details[4].score) = "bad"
             /\ few_nose <=> details[6].score = 0
             /\ few_nose => HeadStatus(details[6].score) = "bad"

\* calc_head_stability has returned None for a swing in which exactly two
\* frames show the nose.
C26_Witness ==
    /\ pc = "head_stability"
    /\ Cardinality(VisibleNose(interval[2])) = 2
    /\ ~obs.defined

(***************************************************************************)
(* Band specification: the banded comparison of evaluate_batting's first   *)
(* three criteria, applied to a measured value: a knee or elbow angle in   *)
(* whole degrees, or a step width and a shoulder width above 0.01.         *)
(***************************************************************************)
BandAngles == 0..180
BandStepWidths == {8 * k : k \in 0..20}
BandShoulderWidths == {40, 80}

InitBand ==
    /\ pc = "measure"
    /\ fps = 0 /\ history = <<>> /\ interval = <<>>
    /\ speeds = <<>> /\ min_frames = NotCalled /\ speed_threshold = 0
    /\ swings = <<>> /\ pitches = <<>> /\ phases = <<>>
    /\ obs = <<>> /\ details = <<>> /\ evaluation = <<>>
    /\ sync = <<>> /\ mapping = <<>>

\* The outcome of one criterion: the measured value, the ideal range and the
\* tolerance (all in the same unit), the score and the criterion's max.
Banded(criterion, value, low, high, tolerance, score, max) ==
    /\ pc = "measure"
    /\ pc' = "banded"
    /\ obs' = [criterion |-> criterion, value |-> value, low |-> low, high |-> high,
               tolerance |-> tolerance, score |-> score, max |-> max]
    /\ UNCHANGED <<fps, history, speeds, min_frames, speed_threshold, swings,
                   pitches, interval, phases, details, evaluation, sync, mapping>>

\* 1. knee_bend, ideal_range (130, 155)
KneeBend ==
    \E angle \in BandAngles :
        Banded("knee_bend", angle, 130, 155, 20, KneeBand(angle), BattingMax.knee_bend)

\* 2. elbow_extension, ideal_range (140, 175)
ElbowExtension ==
    \E best_angle \in BandAngles :
        Banded("elbow_extension", best_angle, 140, 175, 20, ElbowBand(best_angle),
               BattingMax.elbow_extension)

\* 3. step_width, ideal_range (1.0, 1.6): ratio = step_w / shoulder_w, kept
\* in tenths of shoulder_w.
StepWidth ==
    \E step_w \in BandStepWidths : \E shoulder_w \in BandShoulderWidths :
        Banded("step_width", 10 * step_w, 10 * shoulder_w, 16 * shoulder_w,
               3 * shoulder_w, StepBand(step_w, shoulder_w), BattingMax.step_width)

NextBand == KneeBend \/ ElbowExtension \/ StepWidth

SpecBand == InitBand /\ [][NextBand]_vars

\* C27: each banded criterion scores its max inside the ideal range, 60% of
\* max (truncated) outside the range but within the tolerance of either end
\* of it, and 30% of max (truncated) otherwise.
C27_BandedScore ==
    pc = "banded" =>
        obs.score =
            IF obs.low <= obs.value /\ obs.value <= obs.high THEN obs.max
            ELSE IF \/ Abs(obs.value - obs.low) <= obs.tolerance
                    \/ Abs(obs.value - obs.high) <= obs.tolerance
                 THEN (obs.max * 6) \div 10
            ELSE (obs.max * 3) \div 10

(***************************************************************************)
(* Claims about the anchors of find_sync_point_batting / _pitching.        *)
(***************************************************************************)
\* Interval i of ivs has the maximal peak speed and no earlier one has it.
EarliestFastest(ivs, i) ==
    /\ \A k \in 1..Len(ivs) : ivs[k][4] <= ivs[i][4]
    /\ \A k \in 1..(i - 1) : ivs[k][4] # ivs[i][4]

\* The frame of iv that a landmark names.
LandmarkFrame(iv, sync_mode) ==
    IF sync_mode \in {"swing_start", "pitch_start"} THEN iv[1]
    ELSE IF sync_mode \in {"impact", "release"} THEN iv[3]
    ELSE iv[2]

\* C28: when both videos have intervals, the anchors are the landmark frames
\* of each video's interval of maximal peak speed, the earliest on ties:
\* start_frame for the start landmark, peak/release frame for impact/release,
\* end_frame for the end landmark.  Video A's anchor is determined by video
\* A's intervals alone and video B's by video B's; the manual offset is then
\* added to video B's anchor.
C28_BestIntervalAnchors ==
    (Synced /\ ~EitherEmpty) =>
        \E i \in 1..Len(sync.intervals_a) : \E j \in 1..Len(sync.intervals_b) :
            /\ EarliestFastest(sync.intervals_a, i)
            /\ EarliestFastest(sync.intervals_b, j)
            /\ obs.sync_a = LandmarkFrame(sync.intervals_a[i], sync.sync_mode)
            /\ obs.sync_b = LandmarkFrame(sync.intervals_b[j], sync.sync_mode)
                               + sync.manual_offset

\* Video A has two intervals of equal peak speed, video B one whose best
\* interval is its second, and the impact / release landmark is selected.
C28_Witness ==
    /\ pc = "resynced"
    /\ Len(sync.intervals_a) = 2
    /\ sync.intervals_a[1][4] = sync.intervals_a[2][4]
    /\ Len(sync.intervals_b) = 2
    /\ sync.intervals_b[1][4] < sync.intervals_b[2][4]
    /\ sync.sync_mode \in {"impact", "release"}
    /\ sync.manual_offset = 0
    /\ obs = [sync_a |-> sync.intervals_a[1][3], sync_b |-> sync.intervals_b[2][3]]

(***************************************************************************)
(* Claims about the order of the detected intervals.                       *)
(***************************************************************************)
\* C29: the intervals returned by one call of detect_swings, and by one call
\* of detect_pitch_motion, are in increasing order and pairwise disjoint:
\* each interval ends before the next one starts.
C29_DisjointAscending ==
    /\ \A i \in 1..(Len(swings) - 1) : swings[i][2] < swings[i + 1][1]
    /\ \A i \in 1..(Len(pitches) - 1) : pitches[i][2] < pitches[i + 1][1]

\* detect_pitch_motion has returned two intervals.
C29_Witness ==
    /\ min_frames.pitch > 0
    /\ Len(pitches) = 2
    /\ pitches[1][2] < pitches[2][1]

(***************************************************************************)
(* Viewer specification (app.py, comparison mode): every rendering builds  *)
(* the mapping from the selected landmark and the manual offset, replaces  *)
(* an empty one by the one-to-one mapping, clamps the remembered frame     *)
(* index, reads the frame slider and looks the index up in the mapping.    *)
(* A rendering follows one interaction: a changed landmark or offset, a    *)
(* moved frame slider, or a step button.  details holds the session values *)
(* compare_frame and compare_slider, obs the anchors, the mapping that     *)
(* align_frames returned and the index read.                               *)
(***************************************************************************)
MaxViewOffset == 3

InitViewer ==
    /\ pc = "analysed"
    /\ \E mode \in {"batting", "pitching"} :
       \E total_a, total_b \in SyncTotals :
       \E intervals_a, intervals_b \in SyncLists :
          /\ intervals_a # <<>> => total_a = SyncFrames
          /\ intervals_b # <<>> => total_b = SyncFrames
          /\ sync = [mode |-> mode, total_a |-> total_a, total_b |-> total_b,
                     intervals_a |-> intervals_a, intervals_b |-> intervals_b,
                     sync_mode |-> IF mode = "batting" THEN "swing_start"
                                   ELSE "pitch_start",
                     manual_offset |-> 0]
    /\ details = [compare_frame |-> 0, compare_slider |-> Undefined]
    /\ fps = 0 /\ history = <<>> /\ interval = <<>> /\ phases = <<>>
    /\ speeds = <<>> /\ min_frames = NotCalled /\ speed_threshold = 0
    /\ swings = <<>> /\ pitches = <<>>
    /\ obs = <<>> /\ evaluation = <<>> /\ mapping = <<>>

\* The remembered index itself.
ViewerNoClamp(compare_frame, max_idx) == compare_frame

\* clamped = min(st.session_state.compare_frame, max_idx)
ViewerClamp(compare_frame, max_idx) == Min(compare_frame, max_idx)

\* One run of the comparison view with the widget values manual_offset and
\* sync_mode, the frame slider's stored value compare_slider (None before
\* its first rendering) and a pending _cmp_jump_to (None without one).
\* Looking an index up in an empty mapping raises: the run fails.
ViewerRun(manual_offset, sync_mode, compare_slider, jump) ==
    LET has_sync == sync.intervals_a # <<>> /\ sync.intervals_b # <<>>
        anchors == IF has_sync
                   THEN FindSyncPoint(sync.mode, sync.intervals_a,
                                      sync.intervals_b, sync_mode)
                   ELSE <<0, 0>>
        sync_a == anchors[1]
        sync_b == anchors[2] + manual_offset
        aligned == align_frames(sync.total_a, sync.total_b, sync_a, sync_b)
        shown == IF aligned = <<>>
                 THEN IdentityMapping(Min(sync.total_a, sync.total_b))
                 ELSE aligned
        jumped == IF jump.defined THEN jump ELSE compare_slider
        max_idx == Len(shown) - 1
        clamped == ViewerClamp(details.compare_frame, max_idx)
        slider == IF clamped # details.compare_frame THEN Some(clamped) ELSE jumped
        compare_idx == IF slider.defined THEN slider.value ELSE clamped
    IN /\ sync' = [sync EXCEPT !.sync_mode = IF has_sync THEN sync_mode ELSE @,
                               !.manual_offset = manual_offset]
       /\ mapping' = shown
       /\ IF compare_idx \in 0..max_idx
          THEN /\ pc' = "viewed"
               /\ obs' = [sync_a |-> sync_a, sync_b |-> sync_b, aligned |-> aligned,
                          compare_idx |-> compare_idx]
               /\ details' = [compare_frame |-> compare_idx,
                              compare_slider |-> Some(compare_idx)]
          ELSE /\ pc' = "failed"
               /\ obs' = [sync_a |-> sync_a, sync_b |-> sync_b, aligned |-> aligned,
                          compare_idx |-> compare_idx]
               /\ details' = [compare_frame |-> clamped, compare_slider |-> slider]
       /\ UNCHANGED <<fps, history, speeds, min_frames, speed_threshold, swings,
                      pitches, interval, phases, evaluation>>

\* A rendering after the landmark or the manual offset was set.
Render ==
    /\ pc \in {"synced", "viewed", "failed"}
    /\ \E manual_offset \in (-MaxViewOffset)..MaxViewOffset :
       \E sync_mode \in SyncModes(sync.mode) :
          ViewerRun(manual_offset, sync_mode, details.compare_slider, Undefined)

\* A rendering after the frame slider was moved within the range it was
\* last drawn with.
MoveSlider ==
    /\ pc = "viewed"
    /\ \E v \in 0..(Len(mapping) - 1) :
          ViewerRun(sync.manual_offset, sync.sync_mode, Some(v), Undefined)

\* A step button sets _cmp_jump_to and reruns.
Jump ==
    /\ pc = "viewed"
    /\ \E step \in {-10, -1, 1, 10} :
          LET target == IF step < 0 THEN Max(0, obs.compare_idx + step)
                        ELSE Min(Len(mapping) - 1, obs.compare_idx + step)
          IN ViewerRun(sync.manual_offset, sync.sync_mode, details.compare_slider,
                       Some(target))

NextViewer == FirstSync \/ Render \/ MoveSlider \/ Jump

SpecViewer == InitViewer /\ [][NextViewer]_vars

\* C30: align_frames returns an empty mapping exactly when a video has no
\* frame or the video with the later anchor would start at or beyond its
\* frame count (|sync_a - sync_b| >= its total); the view then shows the
\* one-to-one mapping of length min(total_a, total_b); so when both videos
\* have at least one frame the mapping shown is not empty and the index read
\* from it lies in 0 .. len(mapping) - 1.
C30_ViewerMapping ==
    pc \in {"viewed", "failed"} =>
        LET a == obs.sync_a
            b == obs.sync_b
            beyond == \/ sync.total_a = 0 \/ sync.total_b = 0
                      \/ (a > b /\ a - b >= sync.total_a)
                      \/ (b > a /\ b - a >= sync.total_b)
        IN /\ obs.aligned = <<>> <=> beyond
           /\ obs.aligned = <<>> =>
                 mapping = IdentityMapping(Min(sync.total_a, sync.total_b))
           /\ (sync.total_a >= 1 /\ sync.total_b >= 1) =>
                 /\ mapping # <<>>
                 /\ pc = "viewed"
                 /\ obs.compare_idx \in 0..(Len(mapping) - 1)

\* Both videos have frames, align_frames returned nothing, the one-to-one
\* mapping is shown and the index read is its last one.
C30_Witness ==
    /\ pc = "viewed"
    /\ sync.total_a >= 1 /\ sync.total_b >= 1
    /\ obs.aligned = <<>>
    /\ mapping = IdentityMapping(Min(sync.total_a, sync.total_b))
    /\ obs.compare_idx = Len(mapping) - 1

=============================================================================
